---- MODULE Spec2Model ----
(***************************************************************************)
(* RGameBoy: the SM83 interpreter (cpu.rs), its register file              *)
(* (register.rs), the MMU (mmu.rs), the cartridge bank controllers         *)
(* (memory_bank.rs), the interrupt table (interupt.rs) and the DIV/TIMA    *)
(* timer (timer.rs), as a state machine whose steps are CPU::tick and the  *)
(* public MMU operations.                                                  *)
(***************************************************************************)
EXTENDS Integers, Sequences, FiniteSets, TLC

VARIABLES registers, mmu, ime, ime_timer, low_power_mode, panicked, last, steps, ticks, writes

vars == <<registers, mmu, ime, ime_timer, low_power_mode, panicked, last, steps, ticks, writes>>

(***************************************************************************)
(* Machine arithmetic: u8 / u16 values are naturals, operators wrap.       *)
(***************************************************************************)
RECURSIVE BitAnd(_, _)
BitAnd(x, y) ==
    IF x = 0 \/ y = 0 THEN 0
    ELSE (x % 2) * (y % 2) + 2 * BitAnd(x \div 2, y \div 2)

RECURSIVE BitOr(_, _)
BitOr(x, y) ==
    IF x = 0 THEN y
    ELSE IF y = 0 THEN x
    ELSE (IF x % 2 = 1 \/ y % 2 = 1 THEN 1 ELSE 0) + 2 * BitOr(x \div 2, y \div 2)

Not8(x) == 255 - x

Wrap8(x) == x % 256

Wrap16(x) == x % 65536

Hi(value) == (value \div 256) % 256

Lo(value) == value % 256

(***************************************************************************)
(* Rust arrays are zero-initialised ([0; N]); an array is the function of  *)
(* its non-zero cells.                                                     *)
(***************************************************************************)
Zeroed == [x \in {} |-> 0]

Get(arr, i) == IF i \in DOMAIN arr THEN arr[i] ELSE 0

Put(arr, i, v) ==
    IF v = 0 THEN [x \in DOMAIN arr \ {i} |-> arr[x]]
    ELSE [x \in DOMAIN arr \cup {i} |-> IF x = i THEN v ELSE arr[x]]

InRange(x, lo, hi) == lo <= x /\ x <= hi

(***************************************************************************)
(* interupt.rs                                                             *)
(***************************************************************************)
NoInterrupt == 0

VBlank == 64

LCDStatus == 72

TimeOverflow == 80

SerialLink == 88

JoypadPress == 96

\* a first_from that tests the sources from bit 4 down
first_from_highest_first(value) ==
    IF BitAnd(value \div 16, 1) = 1 THEN JoypadPress
    ELSE IF BitAnd(value \div 8, 1) = 1 THEN SerialLink
    ELSE IF BitAnd(value \div 4, 1) = 1 THEN TimeOverflow
    ELSE IF BitAnd(value \div 2, 1) = 1 THEN LCDStatus
    ELSE IF BitAnd(value, 1) = 1 THEN VBlank
    ELSE NoInterrupt

\* Interrupt::first_from: Some(variant) as its discriminant, None as NoInterrupt
first_from(value) ==
    IF BitAnd(value, 1) = 1 THEN VBlank
    ELSE IF BitAnd(value \div 2, 1) = 1 THEN LCDStatus
    ELSE IF BitAnd(value \div 4, 1) = 1 THEN TimeOverflow
    ELSE IF BitAnd(value \div 8, 1) = 1 THEN SerialLink
    ELSE IF BitAnd(value \div 16, 1) = 1 THEN JoypadPress
    ELSE NoInterrupt

get_index(interrupt) ==
    CASE interrupt = VBlank -> 0
      [] interrupt = LCDStatus -> 1
      [] interrupt = TimeOverflow -> 2
      [] interrupt = SerialLink -> 3
      [] interrupt = JoypadPress -> 4

(***************************************************************************)
(* timer.rs                                                                *)
(***************************************************************************)
Timer_new ==
    [divider_register |-> 0, timer_counter |-> 0, timer_modulo |-> 0,
     timer_control |-> 0, internal_counter |-> 0, divider_counter |-> 0]

Timer_read_byte(t, address) ==
    CASE address = 65284 -> t.divider_register
      [] address = 65285 -> t.timer_counter
      [] address = 65286 -> t.timer_modulo
      [] address = 65287 -> t.timer_control

Timer_write_byte(t, address, value) ==
    CASE address = 65284 -> [t EXCEPT !.divider_register = value]
      [] address = 65285 -> [t EXCEPT !.timer_counter = value]
      [] address = 65286 -> [t EXCEPT !.timer_modulo = value]
      [] address = 65287 -> [t EXCEPT !.timer_control = value]

is_enabled(t) == BitAnd(t.timer_control, 4) # 0

get_speed(t) ==
    CASE BitAnd(t.timer_control, 3) = 0 -> 256
      [] BitAnd(t.timer_control, 3) = 1 -> 16
      [] BitAnd(t.timer_control, 3) = 2 -> 4
      [] BitAnd(t.timer_control, 3) = 3 -> 64

\* a Timer::tick that does not reduce the DIV accumulator after counting it
Timer_tick_keeps_divider_counter(t, elapsed) ==
    LET dc == t.divider_counter + elapsed
        t1 == [t EXCEPT !.divider_register = Wrap8(t.divider_register + Wrap8(dc \div 256)),
                        !.divider_counter = dc]
    IN  IF is_enabled(t1)
        THEN LET ic == t1.internal_counter + elapsed
                 sum == t1.timer_counter + Wrap8(ic \div get_speed(t1))
                 overflow == sum > 255
             IN  [timer |-> [t1 EXCEPT !.internal_counter = ic % get_speed(t1),
                                      !.timer_counter = IF overflow THEN t1.timer_modulo
                                                        ELSE sum],
                  overflow |-> overflow]
        ELSE [timer |-> t1, overflow |-> FALSE]

\* Timer::tick: the new timer and the returned overflow signal
Timer_tick(t, elapsed) ==
    LET dc == t.divider_counter + elapsed
        t1 == [t EXCEPT !.divider_register = Wrap8(t.divider_register + Wrap8(dc \div 256)),
                        !.divider_counter = dc % 256]
    IN  IF is_enabled(t1)
        THEN LET ic == t1.internal_counter + elapsed
                 sum == t1.timer_counter + Wrap8(ic \div get_speed(t1))
                 overflow == sum > 255
             IN  [timer |-> [t1 EXCEPT !.internal_counter = ic % get_speed(t1),
                                      !.timer_counter = IF overflow THEN t1.timer_modulo
                                                        ELSE sum],
                  overflow |-> overflow]
        ELSE [timer |-> t1, overflow |-> FALSE]

(***************************************************************************)
(* memory_bank.rs.  A bank controller is a record tagged by kind; a panic  *)
(* (unreachable!, panic!, an index out of bounds) is the separate          *)
(* predicate *_panics of the same arguments.                               *)
(***************************************************************************)
ROM_BANK_SIZE == 16384

ROM_BANK_COUNT == 125

MemoryBankZero_new(rom) ==
    [kind |-> "Zero", rom |-> rom, ram |-> Zeroed,
     base_rom_bank |-> Zeroed, rom_banks |-> Zeroed,
     selected_rom_bank |-> 0, selected_rom_grouping |-> 0,
     ram_banks |-> [k \in 0..3 |-> Zeroed], ram_enabled |-> FALSE,
     selected_ram_bank |-> 0, mode |-> "ROM"]

MemoryBankOne_new(rom) ==
    [kind |-> "One", rom |-> Zeroed, ram |-> Zeroed,
     base_rom_bank |-> [i \in {j \in DOMAIN rom : j < ROM_BANK_SIZE} |-> rom[i]],
     rom_banks |-> [i \in {j - ROM_BANK_SIZE : j \in {k \in DOMAIN rom : k >= ROM_BANK_SIZE}}
                        |-> rom[i + ROM_BANK_SIZE]],
     selected_rom_bank |-> 0, selected_rom_grouping |-> 0,
     ram_banks |-> [k \in 0..3 |-> Zeroed], ram_enabled |-> TRUE,
     selected_ram_bank |-> 0, mode |-> "ROM"]

MemoryBankZero_read_memory(mb, address) ==
    IF InRange(address, 0, 32767) THEN Get(mb.rom, address)
    ELSE Get(mb.ram, address - 40960)

MemoryBankZero_read_panics(mb, address) ==
    ~(InRange(address, 0, 32767) \/ InRange(address, 40960, 49151))

MemoryBankZero_write_memory(mb, address, value) ==
    IF InRange(address, 16384, 32767) THEN mb
    ELSE [mb EXCEPT !.ram = Put(mb.ram, address - 40960, value)]

MemoryBankZero_write_panics(mb, address, value) ==
    ~(InRange(address, 16384, 32767) \/ InRange(address, 40960, 49151))

RomBankIndex(mb, address) ==
    (mb.selected_rom_grouping + mb.selected_rom_bank) * ROM_BANK_SIZE + address - ROM_BANK_SIZE

MemoryBankOne_read_memory(mb, address) ==
    IF InRange(address, 0, 16383) THEN Get(mb.base_rom_bank, address)
    ELSE IF InRange(address, 16384, 32767) THEN Get(mb.rom_banks, RomBankIndex(mb, address))
    ELSE IF mb.ram_enabled THEN Get(mb.ram_banks[mb.selected_ram_bank], address - 40960)
    ELSE 0

MemoryBankOne_read_panics(mb, address) ==
    IF InRange(address, 0, 16383) THEN FALSE
    ELSE IF InRange(address, 16384, 32767)
         THEN RomBankIndex(mb, address) >= ROM_BANK_SIZE * ROM_BANK_COUNT
    ELSE IF InRange(address, 40960, 49151) THEN mb.ram_enabled /\ mb.selected_ram_bank >= 4
    ELSE TRUE

\* a write_memory that stores the bank number itself as the index of the bank
MemoryBankOne_write_memory_keeps_bank_number(mb, address, value) ==
    IF InRange(address, 0, 8191)
    THEN [mb EXCEPT !.ram_enabled = (BitAnd(value, 15) = 10)]
    ELSE IF InRange(address, 8192, 16383)
    THEN LET masked == BitAnd(value, 31)
         IN  [mb EXCEPT !.selected_rom_bank = IF masked = 0 THEN 0 ELSE masked]
    ELSE IF InRange(address, 16384, 24575)
    THEN LET selected == BitAnd(value, 192)
         IN  IF mb.mode = "ROM" THEN [mb EXCEPT !.selected_rom_grouping = selected * 31]
             ELSE [mb EXCEPT !.selected_ram_bank = selected]
    ELSE IF InRange(address, 24576, 32767)
    THEN [mb EXCEPT !.mode = IF value = 0 THEN "ROM" ELSE "RAM"]
    ELSE IF mb.ram_enabled
    THEN [mb EXCEPT !.ram_banks[mb.selected_ram_bank] =
                        Put(mb.ram_banks[mb.selected_ram_bank], address - 40960, value)]
    ELSE mb

\* a write_memory that enables RAM only for the byte 0x0A
MemoryBankOne_write_memory_enables_on_0x0A(mb, address, value) ==
    IF InRange(address, 0, 8191)
    THEN [mb EXCEPT !.ram_enabled = (value = 10)]
    ELSE IF InRange(address, 8192, 16383)
    THEN LET masked == BitAnd(value, 31)
         IN  [mb EXCEPT !.selected_rom_bank = IF masked = 0 THEN 0 ELSE masked - 1]
    ELSE IF InRange(address, 16384, 24575)
    THEN LET selected == BitAnd(value, 192)
         IN  IF mb.mode = "ROM" THEN [mb EXCEPT !.selected_rom_grouping = selected * 31]
             ELSE [mb EXCEPT !.selected_ram_bank = selected]
    ELSE IF InRange(address, 24576, 32767)
    THEN [mb EXCEPT !.mode = IF value = 0 THEN "ROM" ELSE "RAM"]
    ELSE IF mb.ram_enabled
    THEN [mb EXCEPT !.ram_banks[mb.selected_ram_bank] =
                        Put(mb.ram_banks[mb.selected_ram_bank], address - 40960, value)]
    ELSE mb

MemoryBankOne_write_memory(mb, address, value) ==
    IF InRange(address, 0, 8191)
    THEN [mb EXCEPT !.ram_enabled = (BitAnd(value, 15) = 10)]
    ELSE IF InRange(address, 8192, 16383)
    THEN LET masked == BitAnd(value, 31)
         IN  [mb EXCEPT !.selected_rom_bank = IF masked = 0 THEN 0 ELSE masked - 1]
    ELSE IF InRange(address, 16384, 24575)
    THEN LET selected == BitAnd(value, 192)
         IN  IF mb.mode = "ROM" THEN [mb EXCEPT !.selected_rom_grouping = selected * 31]
             ELSE [mb EXCEPT !.selected_ram_bank = selected]
    ELSE IF InRange(address, 24576, 32767)
    THEN [mb EXCEPT !.mode = IF value = 0 THEN "ROM" ELSE "RAM"]
    ELSE IF mb.ram_enabled
    THEN [mb EXCEPT !.ram_banks[mb.selected_ram_bank] =
                        Put(mb.ram_banks[mb.selected_ram_bank], address - 40960, value)]
    ELSE mb

MemoryBankOne_write_panics(mb, address, value) ==
    IF InRange(address, 0, 24575) THEN FALSE
    ELSE IF InRange(address, 24576, 32767) THEN value \notin {0, 1}
    ELSE IF InRange(address, 40960, 49151) THEN mb.ram_enabled /\ mb.selected_ram_bank >= 4
    ELSE TRUE

\* dyn MemoryBank dispatch
MemoryBank_read_memory(mb, address) ==
    IF mb.kind = "Zero" THEN MemoryBankZero_read_memory(mb, address)
    ELSE MemoryBankOne_read_memory(mb, address)

MemoryBank_read_panics(mb, address) ==
    IF mb.kind = "Zero" THEN MemoryBankZero_read_panics(mb, address)
    ELSE MemoryBankOne_read_panics(mb, address)

MemoryBank_write_memory(mb, address, value) ==
    IF mb.kind = "Zero" THEN MemoryBankZero_write_memory(mb, address, value)
    ELSE MemoryBankOne_write_memory(mb, address, value)

MemoryBank_write_panics(mb, address, value) ==
    IF mb.kind = "Zero" THEN MemoryBankZero_write_panics(mb, address, value)
    ELSE MemoryBankOne_write_panics(mb, address, value)

\* instantiate_memory_bank: the header byte 0x0147 selects the controller
CartridgeSupported(rom) == Get(rom, 327) \in 0..3

\* an instantiate_memory_bank that takes only type 0x01 for an MBC1
instantiate_memory_bank_mbc1_for_type_1(rom) ==
    IF Get(rom, 327) = 1 THEN MemoryBankOne_new(rom)
    ELSE IF Get(rom, 327) \in {0, 2, 3} THEN MemoryBankZero_new(rom)
    ELSE [kind |-> "unsupported"]

instantiate_memory_bank(rom) ==
    IF Get(rom, 327) = 0 THEN MemoryBankZero_new(rom)
    ELSE IF Get(rom, 327) \in 1..3 THEN MemoryBankOne_new(rom)
    ELSE [kind |-> "unsupported"]

\* instantiate_memory_bank panics: an unsupported type, or an image longer than
\* the arrays the constructors copy it into
instantiate_memory_bank_panics(rom) ==
    \/ ~CartridgeSupported(rom)
    \/ Get(rom, 327) = 0 /\ \E i \in DOMAIN rom : i >= 32768
    \/ Get(rom, 327) \in 1..3
          /\ \E i \in DOMAIN rom : i >= ROM_BANK_SIZE + ROM_BANK_SIZE * ROM_BANK_COUNT

(***************************************************************************)
(* mmu.rs                                                                  *)
(***************************************************************************)
MMU_new(rom) ==
    [memory_bank |-> instantiate_memory_bank(rom),
     working_ram |-> Zeroed,
     memory |-> Zeroed,
     interrupt_e |-> 0,
     interrupt_f |-> 0,
     timer |-> Timer_new,
     serial |-> << >>]

MMU_read_memory(m, address) ==
    IF InRange(address, 0, 32766) \/ InRange(address, 40960, 49150)
    THEN MemoryBank_read_memory(m.memory_bank, address)
    ELSE IF InRange(address, 49152, 57342) THEN Get(m.working_ram, address - 49152)
    ELSE IF InRange(address, 57344, 65022) THEN Get(m.working_ram, address - 57344)
    ELSE IF InRange(address, 65284, 65287) THEN Timer_read_byte(m.timer, address)
    ELSE IF address = 65295 THEN m.interrupt_f
    ELSE IF address = 65535 THEN m.interrupt_e
    ELSE Get(m.memory, address)

MMU_read_panics(m, address) ==
    /\ InRange(address, 0, 32766) \/ InRange(address, 40960, 49150)
    /\ MemoryBank_read_panics(m.memory_bank, address)

\* print!("{}", value as char): the bytes written to standard output, the UTF-8
\* encoding of the character U+0000..U+00FF that value converts to
print_char(value) ==
    IF value < 128 THEN <<value>>
    ELSE <<192 + (value \div 64), 128 + (value % 64)>>

MMU_write_memory(m, address, value) ==
    IF InRange(address, 0, 32767) \/ InRange(address, 40960, 49151)
    THEN [m EXCEPT !.memory_bank = MemoryBank_write_memory(m.memory_bank, address, value)]
    ELSE IF InRange(address, 49152, 57343)
    THEN [m EXCEPT !.working_ram = Put(m.working_ram, address - 49152, value)]
    ELSE IF InRange(address, 57344, 65023)
    THEN [m EXCEPT !.working_ram = Put(m.working_ram, address - 57344, value)]
    ELSE IF address = 65281 THEN [m EXCEPT !.serial = m.serial \o print_char(value)]
    ELSE IF InRange(address, 65284, 65287)
    THEN [m EXCEPT !.timer = Timer_write_byte(m.timer, address, value)]
    ELSE IF address = 65295 THEN [m EXCEPT !.interrupt_f = value]
    ELSE IF address = 65535 THEN [m EXCEPT !.interrupt_e = value]
    ELSE [m EXCEPT !.memory = Put(m.memory, address, value)]

MMU_write_panics(m, address, value) ==
    /\ InRange(address, 0, 32767) \/ InRange(address, 40960, 49151)
    /\ MemoryBank_write_panics(m.memory_bank, address, value)

get_first_active_interrupt(m) == first_from(BitAnd(m.interrupt_e, m.interrupt_f))

\* an is_interrupt_waiting that tests all eight bits of IE & IF
is_interrupt_waiting_any_bit(m) == BitAnd(m.interrupt_e, m.interrupt_f) # 0

is_interrupt_waiting(m) == get_first_active_interrupt(m) # NoInterrupt

clear_interrupt(m, interrupt) ==
    [m EXCEPT !.interrupt_f = BitAnd(m.interrupt_f, Not8(2 ^ get_index(interrupt)))]

set_timer_interrupt(m) == [m EXCEPT !.interrupt_f = BitOr(m.interrupt_f, 4)]

\* an MMU::tick that advances the timer and ignores its overflow signal
MMU_tick_drops_overflow(m, elapsed) == [m EXCEPT !.timer = Timer_tick(m.timer, elapsed).timer]

MMU_tick(m, elapsed) ==
    LET r == Timer_tick(m.timer, elapsed)
        m1 == [m EXCEPT !.timer = r.timer]
    IN  IF r.overflow THEN set_timer_interrupt(m1) ELSE m1

(***************************************************************************)
(* register.rs                                                             *)
(***************************************************************************)
FlagZ == 128

FlagN == 64

FlagH == 32

FlagC == 16

Registers_new ==
    [a |-> 1, f |-> 176, b |-> 0, c |-> 19, d |-> 0, e |-> 216, h |-> 1, l |-> 77,
     pc |-> 256, sp |-> 65534]

\* a set_flag whose clearing branch stores the complement of the flag's mask
set_flag_stores_mask(r, flag, set) ==
    IF set THEN [r EXCEPT !.f = BitOr(r.f, flag)] ELSE [r EXCEPT !.f = Not8(flag)]

set_flag(r, flag, set) ==
    IF set THEN [r EXCEPT !.f = BitOr(r.f, flag)]
    ELSE [r EXCEPT !.f = BitAnd(r.f, Not8(flag))]

get_flag(r, flag) == IF BitAnd(r.f, flag) # 0 THEN 1 ELSE 0

af(r) == r.a * 256 + BitAnd(r.f, 240)

write_af(r, value) == [r EXCEPT !.a = Hi(value), !.f = BitAnd(value, 240)]

bc(r) == r.b * 256 + r.c

write_bc(r, value) == [r EXCEPT !.b = Hi(value), !.c = Lo(value)]

de(r) == r.d * 256 + r.e

write_de(r, value) == [r EXCEPT !.d = Hi(value), !.e = Lo(value)]

hl(r) == r.h * 256 + r.l

write_hl(r, value) == [r EXCEPT !.h = Hi(value), !.l = Lo(value)]

(***************************************************************************)
(* cpu.rs.  A machine state s is the record of the CPU's fields, with      *)
(* panicked set once a panic has ended the process; every operator is the  *)
(* identity on a panicked state.                                           *)
(***************************************************************************)
CPU_new(rom) ==
    [registers |-> Registers_new, mmu |-> MMU_new(rom), ime |-> FALSE,
     ime_timer |-> 0, low_power_mode |-> FALSE,
     panicked |-> instantiate_memory_bank_panics(rom)]

update_timers(s) ==
    LET s1 == IF s.ime_timer = 1 THEN [s EXCEPT !.ime = TRUE] ELSE s
    IN  IF s1.ime_timer > 0 THEN [s1 EXCEPT !.ime_timer = s1.ime_timer - 1] ELSE s1

CPU_write_memory(s, addr, value) ==
    IF s.panicked THEN s
    ELSE IF MMU_write_panics(s.mmu, addr, value) THEN [s EXCEPT !.panicked = TRUE]
    ELSE [s EXCEPT !.mmu = MMU_write_memory(s.mmu, addr, value)]

\* CPU::read_memory: the byte read, and the state (panicked when the read aborts)
CPU_read_memory(s, addr) ==
    IF s.panicked THEN [value |-> 0, s |-> s]
    ELSE IF MMU_read_panics(s.mmu, addr) THEN [value |-> 0, s |-> [s EXCEPT !.panicked = TRUE]]
    ELSE [value |-> MMU_read_memory(s.mmu, addr), s |-> s]

push_stack(s, value) ==
    LET s1 == [s EXCEPT !.registers.sp = Wrap16(s.registers.sp + 65535)]
        s2 == CPU_write_memory(s1, s1.registers.sp, Hi(value))
        s3 == [s2 EXCEPT !.registers.sp = Wrap16(s2.registers.sp + 65535)]
    IN  CPU_write_memory(s3, s3.registers.sp, Lo(value))

pop_stack(s) ==
    LET low == CPU_read_memory(s, s.registers.sp)
        s1 == [low.s EXCEPT !.registers.sp = Wrap16(low.s.registers.sp + 1)]
        high == CPU_read_memory(s1, s1.registers.sp)
        s2 == [high.s EXCEPT !.registers.sp = Wrap16(high.s.registers.sp + 1)]
    IN  [value |-> high.value * 256 + low.value, s |-> s2]

\* a handle_interrupt that tests IME before it clears low_power_mode
handle_interrupt_wakes_only_with_ime(s) ==
    IF ~s.ime THEN s
    ELSE IF ~is_interrupt_waiting(s.mmu) THEN s
    ELSE LET interrupt == get_first_active_interrupt(s.mmu)
             s2 == [s EXCEPT !.low_power_mode = FALSE, !.ime = FALSE,
                             !.mmu = clear_interrupt(s.mmu, interrupt)]
             s3 == push_stack(s2, s2.registers.pc)
         IN  IF interrupt = NoInterrupt THEN [s EXCEPT !.panicked = TRUE]
             ELSE [s3 EXCEPT !.registers.pc = interrupt]

\* a handle_interrupt that leaves IME set when it services an interrupt
handle_interrupt_keeps_ime(s) ==
    IF ~s.ime /\ ~s.low_power_mode THEN s
    ELSE IF ~is_interrupt_waiting(s.mmu) THEN s
    ELSE LET s1 == [s EXCEPT !.low_power_mode = FALSE]
         IN  IF ~s1.ime THEN s1
             ELSE LET interrupt == get_first_active_interrupt(s1.mmu)
                      s2 == [s1 EXCEPT !.mmu = clear_interrupt(s1.mmu, interrupt)]
                      s3 == push_stack(s2, s2.registers.pc)
                  IN  IF interrupt = NoInterrupt THEN [s1 EXCEPT !.panicked = TRUE]
                      ELSE [s3 EXCEPT !.registers.pc = interrupt]

handle_interrupt(s) ==
    IF ~s.ime /\ ~s.low_power_mode THEN s
    ELSE IF ~is_interrupt_waiting(s.mmu) THEN s
    ELSE LET s1 == [s EXCEPT !.low_power_mode = FALSE]
         IN  IF ~s1.ime THEN s1
             ELSE LET interrupt == get_first_active_interrupt(s1.mmu)
                      s2 == [s1 EXCEPT !.ime = FALSE,
                                       !.mmu = clear_interrupt(s1.mmu, interrupt)]
                      s3 == push_stack(s2, s2.registers.pc)
                  IN  IF interrupt = NoInterrupt
                      THEN [s1 EXCEPT !.ime = FALSE, !.panicked = TRUE]
                      ELSE [s3 EXCEPT !.registers.pc = interrupt]

\* the value handle_interrupt returns (CPU::tick drops it)
handle_interrupt_cycles(s) ==
    IF (s.ime \/ s.low_power_mode) /\ is_interrupt_waiting(s.mmu) /\ s.ime THEN 4 ELSE 0

fetch_byte(s) ==
    LET r == CPU_read_memory(s, s.registers.pc)
    IN  [value |-> r.value, s |-> [r.s EXCEPT !.registers.pc = Wrap16(r.s.registers.pc + 1)]]

fetch_split_word(s) ==
    LET first == fetch_byte(s)
        second == fetch_byte(first.s)
    IN  [first |-> first.value, second |-> second.value, s |-> second.s]

fetch_word(s) ==
    LET w == fetch_split_word(s)
    IN  [value |-> w.first + w.second * 256, s |-> w.s]

\* Option<bool>: None is the empty tuple, Some(x) the one-element tuple
None == << >>

Some(x) == <<x>>

set_flags(s, z, n, h, c) ==
    LET r1 == IF z = None THEN s.registers ELSE set_flag(s.registers, FlagZ, z[1])
        r2 == IF n = None THEN r1 ELSE set_flag(r1, FlagN, n[1])
        r3 == IF h = None THEN r2 ELSE set_flag(r2, FlagH, h[1])
        r4 == IF c = None THEN r3 ELSE set_flag(r3, FlagC, c[1])
    IN  [s EXCEPT !.registers = r4]

\* an add_a whose half carry leaves out the carry-in
add_a_half_carry_without_carry_in(s, value, carry) ==
    LET a == s.registers.a
        sum == Wrap8(a + value + carry)
        s1 == set_flags(s, Some(sum = 0), Some(FALSE),
                        Some(BitAnd(a, 15) + BitAnd(value, 15) > 15),
                        Some(a + value + carry > 255))
    IN  [s1 EXCEPT !.registers.a = sum]

add_a(s, value, carry) ==
    LET a == s.registers.a
        sum == Wrap8(a + value + carry)
        s1 == set_flags(s, Some(sum = 0), Some(FALSE),
                        Some(BitAnd(a, 15) + BitAnd(value, 15) + carry > 15),
                        Some(a + value + carry > 255))
    IN  [s1 EXCEPT !.registers.a = sum]

\* a sub_a whose carry leaves out the borrow-in
sub_a_carry_without_borrow_in(s, value, carry) ==
    LET a == s.registers.a
        sub == Wrap8(a + 512 - value - carry)
        s1 == set_flags(s, Some(sub = 0), Some(TRUE),
                        Some(BitAnd(value, 15) + carry > BitAnd(a, 15)),
                        Some(value > a))
    IN  [s1 EXCEPT !.registers.a = sub]

sub_a(s, value, carry) ==
    LET a == s.registers.a
        sub == Wrap8(a + 512 - value - carry)
        s1 == set_flags(s, Some(sub = 0), Some(TRUE),
                        Some(BitAnd(value, 15) + carry > BitAnd(a, 15)),
                        Some(value + carry > a))
    IN  [s1 EXCEPT !.registers.a = sub]

and_a(s, value) ==
    LET a == BitAnd(s.registers.a, value)
    IN  set_flags([s EXCEPT !.registers.a = a], Some(a = 0), Some(FALSE), Some(TRUE), Some(FALSE))

or_a(s, value) ==
    LET a == BitOr(s.registers.a, value)
    IN  set_flags([s EXCEPT !.registers.a = a], Some(a = 0), Some(FALSE), Some(FALSE), Some(FALSE))

xor_a(s, value) ==
    LET a == BitOr(s.registers.a, value) - BitAnd(s.registers.a, value)
    IN  set_flags([s EXCEPT !.registers.a = a], Some(a = 0), Some(FALSE), Some(FALSE), Some(FALSE))

cp_a(s, value) ==
    LET a == s.registers.a
    IN  set_flags(s, Some(Wrap8(a + 256 - value) = 0), Some(TRUE),
                  Some(BitAnd(value, 15) > BitAnd(a, 15)), Some(value > a))

\* the offset byte is an i8
jump_relative(s) ==
    LET signed(byte) == IF byte > 127 THEN byte - 256 ELSE byte
        jumped(v) == [v.s EXCEPT !.registers.pc =
                          Wrap16(v.s.registers.pc + 65536 + signed(v.value))]
    IN  jumped(fetch_byte(s))

\* the arms of CPU::execute that test a flag: taken runs when the flag has the
\* value wanted
jr_if(s0, flag, wanted) ==
    IF get_flag(s0.registers, flag) = wanted
    THEN [s |-> jump_relative(s0), elapsed |-> 3]
    ELSE [s |-> [s0 EXCEPT !.registers.pc = Wrap16(s0.registers.pc + 1)], elapsed |-> 2]

ret_if(s0, flag, wanted) ==
    IF get_flag(s0.registers, flag) = wanted
    THEN LET v == pop_stack(s0)
         IN  [s |-> [v.s EXCEPT !.registers.pc = v.value], elapsed |-> 5]
    ELSE [s |-> s0, elapsed |-> 2]

call(s0) ==
    LET entered(w) == [push_stack(w.s, w.s.registers.pc) EXCEPT !.registers.pc = w.value]
    IN  [s |-> entered(fetch_word(s0)), elapsed |-> 6]

call_if(s0, flag, wanted) ==
    IF get_flag(s0.registers, flag) = wanted THEN call(s0)
    ELSE [s |-> [s0 EXCEPT !.registers.pc = Wrap16(s0.registers.pc + 2)], elapsed |-> 3]

rst(s0, vector) ==
    LET s1 == push_stack(s0, s0.registers.pc)
    IN  [s |-> [s1 EXCEPT !.registers.pc = vector], elapsed |-> 4]

\* a DAA that adjusts the high digit only on a carry
daa_high_digit_on_carry_only(s0) ==
    LET n == get_flag(s0.registers, FlagN)
        c == get_flag(s0.registers, FlagC)
        h == get_flag(s0.registers, FlagH)
        a0 == s0.registers.a
        high == n = 0 /\ c # 0
        a1 == IF n = 0 THEN (IF high THEN Wrap8(a0 + 96) ELSE a0)
              ELSE (IF c # 0 THEN Wrap8(a0 + 256 - 96) ELSE a0)
        a2 == IF n = 0 THEN (IF h # 0 \/ BitAnd(a1, 15) > 9 THEN Wrap8(a1 + 6) ELSE a1)
              ELSE (IF h # 0 THEN Wrap8(a1 + 256 - 6) ELSE a1)
        r1 == IF high THEN set_flag(s0.registers, FlagC, TRUE) ELSE s0.registers
        r2 == set_flag(r1, FlagZ, a2 = 0)
        r3 == set_flag(r2, FlagH, FALSE)
    IN  [s |-> [s0 EXCEPT !.registers = [r3 EXCEPT !.a = a2]], elapsed |-> 1]

\* the DAA arm of CPU::execute
daa(s0) ==
    LET n == get_flag(s0.registers, FlagN)
        c == get_flag(s0.registers, FlagC)
        h == get_flag(s0.registers, FlagH)
        a0 == s0.registers.a
        high == n = 0 /\ (c # 0 \/ a0 > 153)
        a1 == IF n = 0 THEN (IF high THEN Wrap8(a0 + 96) ELSE a0)
              ELSE (IF c # 0 THEN Wrap8(a0 + 256 - 96) ELSE a0)
        a2 == IF n = 0 THEN (IF h # 0 \/ BitAnd(a1, 15) > 9 THEN Wrap8(a1 + 6) ELSE a1)
              ELSE (IF h # 0 THEN Wrap8(a1 + 256 - 6) ELSE a1)
        r1 == IF high THEN set_flag(s0.registers, FlagC, TRUE) ELSE s0.registers
        r2 == set_flag(r1, FlagZ, a2 = 0)
        r3 == set_flag(r2, FlagH, FALSE)
    IN  [s |-> [s0 EXCEPT !.registers = [r3 EXCEPT !.a = a2]], elapsed |-> 1]

\* a RETI that enables interrupts the way EI does, after the next instruction
reti_enables_after_delay(s0) ==
    LET v == pop_stack([s0 EXCEPT !.ime_timer = 2])
    IN  [s |-> [v.s EXCEPT !.registers.pc = v.value], elapsed |-> 4]

\* the RETI arm of CPU::execute
reti(s0) ==
    LET v == pop_stack([s0 EXCEPT !.ime = TRUE])
    IN  [s |-> [v.s EXCEPT !.registers.pc = v.value], elapsed |-> 4]

\* Opcode::from, for the opcodes this model executes (opcode.rs is not in the
\* source tree; the byte values are those of the SM83 table)
Opcode_from(byte) ==
    CASE byte = 0 -> "NOP"
      [] byte = 1 -> "LD_BC_d16"
      [] byte = 6 -> "LD_B_d8"
      [] byte = 24 -> "JR_r8"
      [] byte = 32 -> "JR_NZ_r8"
      [] byte = 33 -> "LD_HL_d16"
      [] byte = 39 -> "DAA"
      [] byte = 40 -> "JR_Z_r8"
      [] byte = 49 -> "LD_SP_d16"
      [] byte = 55 -> "SCF"
      [] byte = 62 -> "LD_A_d8"
      [] byte = 65 -> "LD_B_C"
      [] byte = 70 -> "LD_B_rHL"
      [] byte = 112 -> "LD_rHL_B"
      [] byte = 118 -> "HALT"
      [] byte = 192 -> "RET_NZ"
      [] byte = 193 -> "POP_BC"
      [] byte = 196 -> "CALL_NZ_a16"
      [] byte = 197 -> "PUSH_BC"
      [] byte = 198 -> "ADD_A_d8"
      [] byte = 199 -> "RST_00H"
      [] byte = 200 -> "RET_Z"
      [] byte = 201 -> "RET"
      [] byte = 204 -> "CALL_Z_a16"
      [] byte = 205 -> "CALL_a16"
      [] byte = 206 -> "ADC_A_d8"
      [] byte = 209 -> "POP_DE"
      [] byte = 213 -> "PUSH_DE"
      [] byte = 214 -> "SUB_d8"
      [] byte = 217 -> "RETI"
      [] byte = 222 -> "SBC_A_d8"
      [] byte = 224 -> "LDH_ra8_A"
      [] byte = 225 -> "POP_HL"
      [] byte = 229 -> "PUSH_HL"
      [] byte = 230 -> "AND_d8"
      [] byte = 238 -> "XOR_d8"
      [] byte = 241 -> "POP_AF"
      [] byte = 243 -> "DI"
      [] byte = 245 -> "PUSH_AF"
      [] byte = 246 -> "OR_d8"
      [] byte = 251 -> "EI"
      [] byte = 254 -> "CP_d8"
      [] byte = 255 -> "RST_38H"
      [] OTHER -> "OTHER"

\* the match of CPU::execute: the state after the decoded instruction, run from
\* the state s0 that follows the opcode fetch, and its machine cycles
execute_match(opcode, s0) ==
        CASE opcode = "NOP" -> [s |-> s0, elapsed |-> 1]
          [] opcode = "LD_BC_d16" ->
                LET w == fetch_split_word(s0)
                IN  [s |-> [w.s EXCEPT !.registers.b = w.second, !.registers.c = w.first],
                     elapsed |-> 3]
          [] opcode = "LD_HL_d16" ->
                LET w == fetch_split_word(s0)
                IN  [s |-> [w.s EXCEPT !.registers.h = w.second, !.registers.l = w.first],
                     elapsed |-> 3]
          [] opcode = "LD_SP_d16" ->
                LET w == fetch_word(s0)
                IN  [s |-> [w.s EXCEPT !.registers.sp = w.value], elapsed |-> 3]
          [] opcode = "SCF" ->
                LET r1 == set_flag(s0.registers, FlagN, FALSE)
                    r2 == set_flag(r1, FlagH, FALSE)
                    r3 == set_flag(r2, FlagC, TRUE)
                IN  [s |-> [s0 EXCEPT !.registers = r3], elapsed |-> 1]
          [] opcode = "LD_A_d8" ->
                LET v == fetch_byte(s0)
                IN  [s |-> [v.s EXCEPT !.registers.a = v.value], elapsed |-> 2]
          [] opcode = "HALT" -> [s |-> [s0 EXCEPT !.low_power_mode = TRUE], elapsed |-> 1]
          [] opcode = "POP_BC" ->
                LET v == pop_stack(s0)
                IN  [s |-> [v.s EXCEPT !.registers = write_bc(v.s.registers, v.value)],
                     elapsed |-> 3]
          [] opcode = "PUSH_BC" -> [s |-> push_stack(s0, bc(s0.registers)), elapsed |-> 4]
          [] opcode = "ADD_A_d8" ->
                LET v == fetch_byte(s0)
                IN  [s |-> add_a(v.s, v.value, 0), elapsed |-> 1]
          [] opcode = "POP_DE" ->
                LET v == pop_stack(s0)
                IN  [s |-> [v.s EXCEPT !.registers = write_de(v.s.registers, v.value)],
                     elapsed |-> 3]
          [] opcode = "PUSH_DE" -> [s |-> push_stack(s0, de(s0.registers)), elapsed |-> 4]
          [] opcode = "SUB_d8" ->
                LET v == fetch_byte(s0)
                IN  [s |-> sub_a(v.s, v.value, 0), elapsed |-> 1]
          [] opcode = "RETI" -> reti(s0)
          [] opcode = "LDH_ra8_A" ->
                LET v == fetch_byte(s0)
                IN  [s |-> CPU_write_memory(v.s, 65280 + v.value, v.s.registers.a),
                     elapsed |-> 3]
          [] opcode = "POP_HL" ->
                LET v == pop_stack(s0)
                IN  [s |-> [v.s EXCEPT !.registers = write_hl(v.s.registers, v.value)],
                     elapsed |-> 3]
          [] opcode = "PUSH_HL" -> [s |-> push_stack(s0, hl(s0.registers)), elapsed |-> 4]
          [] opcode = "POP_AF" ->
                LET v == pop_stack(s0)
                IN  [s |-> [v.s EXCEPT !.registers =
                                write_af(v.s.registers, BitAnd(v.value, 65520))],
                     elapsed |-> 3]
          [] opcode = "DI" -> [s |-> [s0 EXCEPT !.ime = FALSE], elapsed |-> 1]
          [] opcode = "PUSH_AF" -> [s |-> push_stack(s0, af(s0.registers)), elapsed |-> 4]
          [] opcode = "EI" -> [s |-> [s0 EXCEPT !.ime_timer = 2], elapsed |-> 1]
          [] opcode = "LD_B_d8" ->
                LET v == fetch_byte(s0)
                IN  [s |-> [v.s EXCEPT !.registers.b = v.value], elapsed |-> 2]
          [] opcode = "JR_r8" -> [s |-> jump_relative(s0), elapsed |-> 3]
          [] opcode = "JR_NZ_r8" -> jr_if(s0, FlagZ, 0)
          [] opcode = "DAA" -> daa(s0)
          [] opcode = "JR_Z_r8" -> jr_if(s0, FlagZ, 1)
          [] opcode = "LD_B_C" -> [s |-> [s0 EXCEPT !.registers.b = s0.registers.c], elapsed |-> 1]
          [] opcode = "LD_B_rHL" ->
                LET v == CPU_read_memory(s0, hl(s0.registers))
                IN  [s |-> [v.s EXCEPT !.registers.b = v.value], elapsed |-> 2]
          [] opcode = "LD_rHL_B" ->
                [s |-> CPU_write_memory(s0, hl(s0.registers), s0.registers.b), elapsed |-> 2]
          [] opcode = "RET_NZ" -> ret_if(s0, FlagZ, 0)
          [] opcode = "CALL_NZ_a16" -> call_if(s0, FlagZ, 0)
          [] opcode = "RST_00H" -> rst(s0, 0)
          [] opcode = "RET_Z" -> ret_if(s0, FlagZ, 1)
          [] opcode = "RET" ->
                LET v == pop_stack(s0)
                IN  [s |-> [v.s EXCEPT !.registers.pc = v.value], elapsed |-> 4]
          [] opcode = "CALL_Z_a16" -> call_if(s0, FlagZ, 1)
          [] opcode = "CALL_a16" -> call(s0)
          [] opcode = "ADC_A_d8" ->
                LET v == fetch_byte(s0)
                IN  [s |-> add_a(v.s, v.value, get_flag(v.s.registers, FlagC)), elapsed |-> 1]
          [] opcode = "SBC_A_d8" ->
                LET v == fetch_byte(s0)
                IN  [s |-> sub_a(v.s, v.value, get_flag(v.s.registers, FlagC)), elapsed |-> 1]
          [] opcode = "AND_d8" ->
                LET v == fetch_byte(s0)
                IN  [s |-> and_a(v.s, v.value), elapsed |-> 1]
          [] opcode = "XOR_d8" ->
                LET v == fetch_byte(s0)
                IN  [s |-> xor_a(v.s, v.value), elapsed |-> 1]
          [] opcode = "OR_d8" ->
                LET v == fetch_byte(s0)
                IN  [s |-> or_a(v.s, v.value), elapsed |-> 1]
          [] opcode = "CP_d8" ->
                LET v == fetch_byte(s0)
                IN  [s |-> cp_a(v.s, v.value), elapsed |-> 2]
          [] opcode = "RST_38H" -> rst(s0, 56)

\* CPU::execute: fetch, decode, run
execute(s) ==
    LET fetched(f) == execute_match(Opcode_from(f.value), f.s)
    IN  fetched(fetch_byte(s))

\* a CPU::tick that executes an instruction whether or not the CPU is halted
CPU_tick_runs_while_halted(s) ==
    LET timed(r) ==
            IF r.s.panicked THEN [s |-> [s EXCEPT !.panicked = TRUE], elapsed |-> 0]
            ELSE [s |-> [r.s EXCEPT !.mmu = MMU_tick(r.s.mmu, r.elapsed)],
                  elapsed |-> r.elapsed]
        run(s2) == timed(IF s2.panicked THEN [s |-> s2, elapsed |-> 0] ELSE execute(s2))
    IN  run(handle_interrupt(update_timers(s)))

\* a CPU::tick whose halted step passes no cycle to the MMU
CPU_tick_stops_clock_while_halted(s) ==
    LET timed(r) ==
            IF r.s.panicked THEN [s |-> [s EXCEPT !.panicked = TRUE], elapsed |-> 0]
            ELSE [s |-> [r.s EXCEPT !.mmu = MMU_tick(r.s.mmu, r.elapsed)],
                  elapsed |-> r.elapsed]
        run(s2) == timed(IF s2.panicked THEN [s |-> s2, elapsed |-> 0]
                         ELSE IF s2.low_power_mode THEN [s |-> s2, elapsed |-> 0]
                         ELSE execute(s2))
    IN  run(handle_interrupt(update_timers(s)))

\* CPU::tick: one step of the driver loop
CPU_tick(s) ==
    LET timed(r) ==
            IF r.s.panicked THEN [s |-> [s EXCEPT !.panicked = TRUE], elapsed |-> 0]
            ELSE [s |-> [r.s EXCEPT !.mmu = MMU_tick(r.s.mmu, r.elapsed)],
                  elapsed |-> r.elapsed]
        run(s2) == timed(IF s2.panicked THEN [s |-> s2, elapsed |-> 0]
                         ELSE IF s2.low_power_mode THEN [s |-> s2, elapsed |-> 1]
                         ELSE execute(s2))
    IN  run(handle_interrupt(update_timers(s)))

(***************************************************************************)
(* The state machine.  registers, mmu, ime, ime_timer and low_power_mode   *)
(* are the fields of CPU; panicked records that a panic ended the process. *)
(* History: last is the record of the latest CPU step or MMU tick (what it *)
(* observed and did), steps the summaries of the CPU steps so far, ticks   *)
(* and writes count the steps and the MMU writes made from outside.        *)
(***************************************************************************)
MaxProg == 3

MaxTicks == 4

MaxWrites == 2

\* the ROM image holding the bytes of program at 0x0100 (the rest of the image is 0x00)
RECURSIVE Flatten(_)
Flatten(seqs) == IF seqs = << >> THEN << >> ELSE Head(seqs) \o Flatten(Tail(seqs))

Image(program) ==
    LET bytes == Flatten(program)
    IN  [a \in {255 + i : i \in {j \in 1..Len(bytes) : bytes[j] # 0}} |-> bytes[a - 255]]

Self ==
    [registers |-> registers, mmu |-> mmu, ime |-> ime, ime_timer |-> ime_timer,
     low_power_mode |-> low_power_mode, panicked |-> panicked]

Becomes(s) ==
    /\ registers' = s.registers
    /\ mmu' = s.mmu
    /\ ime' = s.ime
    /\ ime_timer' = s.ime_timer
    /\ low_power_mode' = s.low_power_mode
    /\ panicked' = s.panicked

\* the machine is in state s and nothing has run yet
Starts(s) ==
    /\ registers = s.registers
    /\ mmu = s.mmu
    /\ ime = s.ime
    /\ ime_timer = s.ime_timer
    /\ low_power_mode = s.low_power_mode
    /\ panicked = s.panicked
    /\ last = [kind |-> "init"]
    /\ steps = << >>
    /\ ticks = 0
    /\ writes = 0

\* what a step's record keeps of a machine state
View(s) ==
    [registers |-> s.registers, ime |-> s.ime, ime_timer |-> s.ime_timer,
     low_power_mode |-> s.low_power_mode, interrupt_e |-> s.mmu.interrupt_e,
     interrupt_f |-> s.mmu.interrupt_f]

\* the opcode CPU::tick executes from s, "none" when it executes none
Executes(s) ==
    LET s2 == handle_interrupt(update_timers(s))
    IN  IF s2.panicked \/ s2.low_power_mode THEN "none"
        ELSE Opcode_from(CPU_read_memory(s2, s2.registers.pc).value)

\* the record of one CPU::tick from s with result r: the state before, at the
\* interrupt check (after update_timers), after handle_interrupt (mid) and after
\* the step
TickRecord(s, r) ==
    LET s1 == update_timers(s)
        s2 == handle_interrupt(s1)
    IN  [kind |-> "tick",
         before |-> View(s),
         before_mmu |-> s.mmu,
         check |-> View(s1),
         serviced |-> handle_interrupt_cycles(s1) = 4,
         mid |-> View(s2),
         mid_mmu |-> s2.mmu,
         op |-> Executes(s),
         elapsed |-> r.elapsed,
         after |-> View(r.s),
         after_mmu |-> r.s.mmu,
         panicked |-> r.s.panicked]

Summary(rec) ==
    [op |-> rec.op, serviced |-> rec.serviced, before |-> rec.before,
     check |-> rec.check, after |-> rec.after, panicked |-> rec.panicked]

\* CPU::tick, for the programs whose opcodes the model executes, in a run of at
\* most bound steps
TickUpTo(bound) ==
    /\ ~panicked
    /\ ticks < bound
    /\ Executes(Self) # "OTHER"
    /\ \E r \in {CPU_tick(Self)} :
          \E rec \in {TickRecord(Self, r)} :
              /\ Becomes(r.s)
              /\ last' = rec
              /\ steps' = Append(steps, Summary(rec))
    /\ ticks' = ticks + 1
    /\ UNCHANGED writes

Tick == TickUpTo(MaxTicks)

(***************************************************************************)
(* Spec: the CPU from power-on running an interrupt-control program, with  *)
(* the host raising and enabling interrupts through cpu.mmu.               *)
(***************************************************************************)
\* NOP, EI, DI, HALT, RETI
Instrs == { <<0>>, <<251>>, <<243>>, <<118>>, <<217>> }

\* the writes the host (PPU, joypad, serial) makes through cpu.mmu: IE and IF
HostWrites == { <<65535, 36>>, <<65295, 4>>, <<65295, 32>> }

Init == \E program \in [1..MaxProg -> Instrs] : Starts(CPU_new(Image(program)))

HostWrite ==
    /\ ~panicked
    /\ writes < MaxWrites
    /\ \E w \in HostWrites : mmu' = MMU_write_memory(mmu, w[1], w[2])
    /\ writes' = writes + 1
    /\ UNCHANGED <<registers, ime, ime_timer, low_power_mode, panicked, last, steps, ticks>>

Next == Tick \/ HostWrite

Spec == Init /\ [][Next]_vars

(***************************************************************************)
(* Vocabulary of the properties.                                           *)
(***************************************************************************)
Bit(v, i) == (v \div (2 ^ i)) % 2

\* some interrupt source 0..4 is enabled and flagged in v = IE & IF
Pending(v) == \E i \in 0..4 : Bit(v, i) = 1

LowestPending(v) == CHOOSE i \in 0..4 : Bit(v, i) = 1 /\ \A j \in 0..(i - 1) : Bit(v, j) = 0

VectorOf(i) == 64 + 8 * i

Requested(view) == BitAnd(view.interrupt_e, view.interrupt_f)

IsTick == last.kind = "tick"

(***************************************************************************)
(* C1: a step that begins with IME set and one of bits 0..4 of IE & IF set *)
(* services that interrupt and does nothing else: IME is cleared, the      *)
(* lowest pending IF bit is cleared, the old PC is on the stack at the new *)
(* SP = SP - 2 (low byte first), PC is the service vector when the step    *)
(* returns, no opcode is executed and the step accounts 4 machine cycles.  *)
(***************************************************************************)
C1_ServiceIsTheWholeStep ==
    (IsTick /\ ~last.panicked /\ last.before.ime /\ Pending(Requested(last.before))) =>
        LET i == LowestPending(Requested(last.before))
            pc0 == last.before.registers.pc
            sp1 == Wrap16(last.before.registers.sp + 65534)
        IN  /\ ~last.after.ime
            /\ last.after.interrupt_f = last.before.interrupt_f - 2 ^ i
            /\ last.after.registers.sp = sp1
            /\ MMU_read_memory(last.after_mmu, sp1) = Lo(pc0)
            /\ MMU_read_memory(last.after_mmu, Wrap16(sp1 + 1)) = Hi(pc0)
            /\ last.after.registers.pc = VectorOf(i)
            /\ last.op = "none"
            /\ last.elapsed = 4

(***************************************************************************)
(* C2: once DI has executed as the instruction right after EI, IME is      *)
(* false after DI and after every later step, and no later step services   *)
(* an interrupt, until another EI or a RETI executes.                      *)
(***************************************************************************)
C2_EiThenDiLeavesImeOff ==
    \A i \in 2..Len(steps) :
        (steps[i - 1].op = "EI" /\ steps[i].op = "DI") =>
            \A j \in i..Len(steps) :
                (\A k \in (i + 1)..j : steps[k].op \notin {"EI", "RETI"}) =>
                    /\ ~steps[j].after.ime
                    /\ j > i => ~steps[j].serviced

(***************************************************************************)
(* C3: after EI executes with IME false, the next step runs with IME false *)
(* at its interrupt check and services nothing, and the step after that    *)
(* has IME true at its interrupt check and services an enabled pending     *)
(* interrupt.                                                              *)
(***************************************************************************)
C3_EiDelaysOneInstruction ==
    \A i \in 1..Len(steps) :
        (steps[i].op = "EI" /\ ~steps[i].check.ime /\ ~steps[i].after.ime) =>
            /\ i + 1 <= Len(steps) =>
                  ~steps[i + 1].check.ime /\ ~steps[i + 1].serviced
            /\ i + 2 <= Len(steps) =>
                  /\ steps[i + 2].check.ime
                  /\ Pending(Requested(steps[i + 2].check)) => steps[i + 2].serviced

(***************************************************************************)
(* C5 as stated: a halted step that begins with (IE & IF) != 0 clears the  *)
(* halted flag whether IME is set or not; with IME false nothing is        *)
(* serviced (IF, SP, the stack and PC are as before) and the instruction   *)
(* at PC executes.                                                         *)
(***************************************************************************)
C5_AnyRequestedBitWakes ==
    (IsTick /\ ~last.panicked /\ last.before.low_power_mode /\ Requested(last.before) # 0) =>
        /\ ~last.mid.low_power_mode
        /\ ~last.before.ime =>
              /\ ~last.serviced
              /\ last.mid.interrupt_f = last.before.interrupt_f
              /\ last.mid.registers = last.before.registers
              /\ last.mid_mmu = last.before_mmu
              /\ last.op # "none"

(***************************************************************************)
(* C5 amended: a halted step that begins with one of bits 0..4 of IE & IF  *)
(* set clears the halted flag whether IME is set or not; when IME is false *)
(* at the step's interrupt check (after the EI delay has been advanced)    *)
(* nothing is serviced (IF, the registers with SP and PC, and memory are   *)
(* as before) and the instruction at PC executes in that step.             *)
(***************************************************************************)
C5_PendingInterruptWakes ==
    (IsTick /\ ~last.panicked /\ last.before.low_power_mode /\ Pending(Requested(last.before))) =>
        /\ ~last.mid.low_power_mode
        /\ last.op # "none"
        /\ ~last.check.ime =>
              /\ ~last.serviced
              /\ last.mid.interrupt_f = last.before.interrupt_f
              /\ last.mid.registers = last.before.registers
              /\ last.mid_mmu = last.before_mmu

C5_Witness ==
    /\ IsTick /\ ~last.panicked
    /\ last.before.low_power_mode
    /\ Pending(Requested(last.before))
    /\ ~last.check.ime
    /\ last.op = "NOP"

(***************************************************************************)
(* C6 as stated: a halted step with (IE & IF) = 0 takes 1 machine cycle,   *)
(* executes no opcode and leaves the registers (PC, SP, A..L, F), IME and  *)
(* the halted flag unchanged.                                              *)
(***************************************************************************)
C6_HaltedStepChangesNothing ==
    (IsTick /\ last.before.low_power_mode /\ Requested(last.before) = 0) =>
        /\ last.elapsed = 1
        /\ last.op = "none"
        /\ last.after.registers = last.before.registers
        /\ last.after.low_power_mode
        /\ last.after.ime = last.before.ime

(***************************************************************************)
(* C6 amended: a halted step with (IE & IF) = 0 takes 1 machine cycle,     *)
(* executes no opcode and leaves the registers and the halted flag         *)
(* unchanged; IME is unchanged too, except that it becomes true when the   *)
(* EI delay runs out in that step (the delay counter was 1).               *)
(***************************************************************************)
C6_HaltedStepOnlyAdvancesEiDelay ==
    (IsTick /\ last.before.low_power_mode /\ Requested(last.before) = 0) =>
        /\ last.elapsed = 1
        /\ last.op = "none"
        /\ last.after.registers = last.before.registers
        /\ last.after.low_power_mode
        /\ last.after.ime = (last.before.ime \/ last.before.ime_timer = 1)

C6_Witness ==
    /\ IsTick
    /\ last.before.low_power_mode
    /\ Requested(last.before) = 0
    /\ last.before.interrupt_f # 0
    /\ last.elapsed = 1

(***************************************************************************)
(* SpecService: the CPU running a program that enables interrupts (with   *)
(* the stack at its power-on place, below IF, or below IE), entered with   *)
(* IE and IF already written by the host (every pair of six-bit values).   *)
(***************************************************************************)
\* EI; NOP  /  LD SP,0xFF10; EI; NOP  /  LD SP,0x0000; EI; NOP
ServicePrograms ==
    { << <<251>>, <<0>> >>,
      << <<49, 16, 255>>, <<251>>, <<0>> >>,
      << <<49, 0, 0>>, <<251>>, <<0>> >> }

IntBytes == 0..63 \cup {224, 255}

InitService ==
    \E program \in ServicePrograms, ie \in IntBytes, if \in IntBytes :
        LET s == CPU_new(Image(program))
        IN  Starts([s EXCEPT !.mmu = MMU_write_memory(MMU_write_memory(s.mmu, 65535, ie),
                                                       65295, if)])

NextService == Tick

SpecService == InitService /\ [][NextService]_vars

\* the two addresses push_stack writes from the SP of view
PushAddrs(view) == {Wrap16(view.registers.sp + 65535), Wrap16(view.registers.sp + 65534)}

(***************************************************************************)
(* C4 as stated: whenever a step reaches its interrupt check with IME set  *)
(* and a source 0..4 enabled and flagged, the interrupt serviced is the    *)
(* lowest such bit of IE & IF: PC is set to that bit's vector (0x40 + 8 *  *)
(* bit), that one IF bit is cleared, every other IF bit and all of IE are  *)
(* unchanged.                                                              *)
(***************************************************************************)
C4_LowestBitServiced ==
    (IsTick /\ ~last.panicked /\ last.check.ime /\ Pending(Requested(last.check))) =>
        LET i == LowestPending(Requested(last.check))
        IN  /\ last.serviced
            /\ last.mid.registers.pc = VectorOf(i)
            /\ last.mid.interrupt_f = last.check.interrupt_f - 2 ^ i
            /\ last.mid.interrupt_e = last.check.interrupt_e

(***************************************************************************)
(* C4 amended: the same, provided neither of the two bytes the service     *)
(* pushes PC to (SP-1, SP-2) is the IF register 0xFF0F or the IE register  *)
(* 0xFFFF.                                                                 *)
(***************************************************************************)
C4_LowestBitServicedOffRegisters ==
    (/\ IsTick /\ ~last.panicked /\ last.check.ime /\ Pending(Requested(last.check))
     /\ PushAddrs(last.check) \cap {65295, 65535} = {}) =>
        LET i == LowestPending(Requested(last.check))
        IN  /\ last.serviced
            /\ last.mid.registers.pc = VectorOf(i)
            /\ last.mid.interrupt_f = last.check.interrupt_f - 2 ^ i
            /\ last.mid.interrupt_e = last.check.interrupt_e

C4_Witness ==
    /\ IsTick /\ ~last.panicked /\ last.check.ime
    /\ Requested(last.check) = 58
    /\ last.check.interrupt_f = 63
    /\ PushAddrs(last.check) \cap {65295, 65535} = {}
    /\ last.mid.registers.pc = 72
    /\ last.mid.interrupt_f = 61

(***************************************************************************)
(* SpecStack: the CPU from power-on running a program of stack and flag    *)
(* instructions, with the stack at its power-on place (HRAM) or at the top *)
(* of work RAM.                                                            *)
(***************************************************************************)
\* LD SP,0xE000; LD BC,0x12FF; PUSH/POP BC, DE, HL, AF; ADD A,0xFF; SUB 0x02; SCF
StackInstrs ==
    { <<49, 0, 224>>, <<1, 255, 18>>, <<197>>, <<193>>, <<213>>, <<209>>,
      <<229>>, <<225>>, <<245>>, <<241>>, <<198, 255>>, <<214, 2>>, <<55>> }

InitStack == \E program \in [1..MaxProg -> StackInstrs] : Starts(CPU_new(Image(program)))

NextStack == Tick

SpecStack == InitStack /\ [][NextStack]_vars

(***************************************************************************)
(* C7: in every state reached from the post-boot state (F = 0xB0), after   *)
(* POP AF of any stack bytes and after every flag-setting instruction, the *)
(* low nibble of F is zero: F & 0x0F = 0.                                  *)
(***************************************************************************)
C7_LowNibbleOfFIsZero == BitAnd(registers.f, 15) = 0

\* POP AF has just loaded F from a stack byte whose low nibble was 0xF, after
\* which F is 0xF0 (all four flags set, low nibble clear)
C7_Witness ==
    /\ IsTick
    /\ last.op = "POP_AF"
    /\ MMU_read_memory(last.before_mmu, last.before.registers.sp) = 255
    /\ registers.f = 240

(***************************************************************************)
(* C8: for rr in {BC, DE, HL} and an SP whose two stack bytes lie in work  *)
(* RAM or HRAM (0xC000-0xDFFF, 0xFF80-0xFFFE), PUSH rr followed by POP rr  *)
(* restores rr and SP, and PUSH leaves the high byte at SP-1 and the low   *)
(* byte at SP-2; for AF the restored value is the pushed value with the    *)
(* low nibble of F zero.                                                   *)
(***************************************************************************)
InStackRam(a) == InRange(a, 49152, 57343) \/ InRange(a, 65408, 65534)

PairOf(op, r) ==
    CASE op \in {"PUSH_BC", "POP_BC"} -> bc(r)
      [] op \in {"PUSH_DE", "POP_DE"} -> de(r)
      [] op \in {"PUSH_HL", "POP_HL"} -> hl(r)
      [] op \in {"PUSH_AF", "POP_AF"} -> r.a * 256 + r.f

PopFor(op) ==
    CASE op = "PUSH_BC" -> "POP_BC"
      [] op = "PUSH_DE" -> "POP_DE"
      [] op = "PUSH_HL" -> "POP_HL"
      [] op = "PUSH_AF" -> "POP_AF"
      [] OTHER -> "none"

C8_PushPopRoundTrip ==
    /\ \A n \in 2..Len(steps) :
          LET push == steps[n - 1]
              pop == steps[n]
              sp == push.before.registers.sp
              value == PairOf(push.op, push.before.registers)
          IN  (/\ PopFor(push.op) # "none"
               /\ pop.op = PopFor(push.op)
               /\ ~push.panicked /\ ~pop.panicked
               /\ InStackRam(Wrap16(sp + 65535)) /\ InStackRam(Wrap16(sp + 65534)))
              => /\ pop.after.registers.sp = sp
                 /\ PairOf(pop.op, pop.after.registers) =
                        IF push.op = "PUSH_AF" THEN BitAnd(value, 65520) ELSE value
    /\ (IsTick /\ PopFor(last.op) # "none" /\ ~last.panicked)
       => LET sp == last.before.registers.sp
              value == PairOf(last.op, last.before.registers)
          IN  (InStackRam(Wrap16(sp + 65535)) /\ InStackRam(Wrap16(sp + 65534)))
              => /\ last.after.registers.sp = Wrap16(sp + 65534)
                 /\ MMU_read_memory(last.after_mmu, Wrap16(sp + 65535)) = Hi(value)
                 /\ MMU_read_memory(last.after_mmu, Wrap16(sp + 65534)) = Lo(value)

(***************************************************************************)
(* SpecTimer: MMU::tick called with the cycle counts of successive         *)
(* instructions, on an MMU whose TAC, TIMA, TMA and IF were written before  *)
(* the first tick.  last.total is the cycles accumulated before the tick.  *)
(***************************************************************************)
MaxMmuTicks == 5

MaxElapsed == 4

TacBytes == { 0, 4, 5, 6, 7 }

TimaBytes == { 0, 254, 255 }

TmaBytes == { 0, 7 }

IfBytes == { 0, 27 }

InitTimer ==
    \E tac \in TacBytes, tima \in TimaBytes, tma \in TmaBytes, if \in IfBytes :
        LET s == CPU_new(Image(<< >>))
            m1 == MMU_write_memory(s.mmu, 65287, tac)
            m2 == MMU_write_memory(m1, 65285, tima)
            m3 == MMU_write_memory(m2, 65286, tma)
            m4 == MMU_write_memory(m3, 65295, if)
        IN  Starts([s EXCEPT !.mmu = m4])

\* MMU::tick(elapsed)
MmuTick ==
    /\ ~panicked
    /\ ticks < MaxMmuTicks
    /\ \E elapsed \in 0..MaxElapsed :
          /\ mmu' = MMU_tick(mmu, elapsed)
          /\ last' = [kind |-> "mmu_tick", before_mmu |-> mmu, elapsed |-> elapsed,
                      after_mmu |-> MMU_tick(mmu, elapsed),
                      total |-> IF last.kind = "mmu_tick" THEN last.total + last.elapsed
                                ELSE 0]
    /\ ticks' = ticks + 1
    /\ UNCHANGED <<registers, ime, ime_timer, low_power_mode, panicked, steps, writes>>

NextTimer == MmuTick

SpecTimer == InitTimer /\ [][NextTimer]_vars

IsMmuTick == last.kind = "mmu_tick"

\* the tick recorded in last carries TIMA past 0xFF
TimaOverflows ==
    LET t == last.before_mmu.timer
    IN  /\ BitAnd(t.timer_control, 4) # 0
        /\ t.timer_counter + ((t.internal_counter + last.elapsed) \div get_speed(t)) > 255

(***************************************************************************)
(* C9: with TAC bit 2 set, an MMU tick that makes TIMA increment past 0xFF *)
(* reloads TIMA with TMA and sets bit 2 of IF in that same tick; a tick in *)
(* which TIMA does not overflow leaves bit 2 and every other bit of IF     *)
(* unchanged.                                                              *)
(***************************************************************************)
C9_OverflowReloadsAndRaises ==
    IsMmuTick =>
        /\ TimaOverflows =>
              /\ last.after_mmu.timer.timer_counter = last.before_mmu.timer.timer_modulo
              /\ Bit(last.after_mmu.interrupt_f, 2) = 1
        /\ ~TimaOverflows => last.after_mmu.interrupt_f = last.before_mmu.interrupt_f

\* a tick overflowed TIMA from 0xFF with TMA = 7 and IF = 0x1B: TIMA is 7, IF 0x1F
C9_Witness ==
    /\ IsMmuTick
    /\ TimaOverflows
    /\ last.before_mmu.timer.timer_counter = 255
    /\ last.before_mmu.interrupt_f = 27
    /\ mmu.timer.timer_counter = 7
    /\ mmu.interrupt_f = 31

(***************************************************************************)
(* C10: with TAC bit 2 set, TIMA increments once per N accumulated machine *)
(* cycles, N = 256, 4, 16, 64 for TAC[1:0] = 00, 01, 10, 11: a tick adds   *)
(* to TIMA the number of multiples of N the accumulated cycles pass.       *)
(***************************************************************************)
ClaimedPeriod(tac) ==
    CASE tac % 4 = 0 -> 256
      [] tac % 4 = 1 -> 4
      [] tac % 4 = 2 -> 16
      [] tac % 4 = 3 -> 64

C10_TimaPeriod ==
    (IsMmuTick /\ BitAnd(last.before_mmu.timer.timer_control, 4) # 0) =>
        LET t == last.before_mmu.timer
            N == ClaimedPeriod(t.timer_control)
            incs == ((last.total + last.elapsed) \div N) - (last.total \div N)
        IN  last.after_mmu.timer.timer_counter =
                IF t.timer_counter + incs > 255 THEN t.timer_modulo
                ELSE t.timer_counter + incs

(***************************************************************************)
(* SpecBus: MMU::write_memory called on the MMU of a machine at power-on   *)
(* (cartridge type 0x00), at the DIV register, in work RAM, in the echo    *)
(* range and in HRAM.  last records the write, steps the writes so far.    *)
(***************************************************************************)
MaxBusWrites == 3

\* MMU::write_memory(address, value) for a write <<address, value>> of set;
\* a panic of the call ends the process
MmuWriteFrom(set) ==
    /\ ~panicked
    /\ writes < MaxBusWrites
    /\ \E w \in set :
          \E after \in {IF MMU_write_panics(mmu, w[1], w[2]) THEN mmu
                        ELSE MMU_write_memory(mmu, w[1], w[2])} :
              /\ mmu' = after
              /\ panicked' = MMU_write_panics(mmu, w[1], w[2])
              /\ last' = [kind |-> "mmu_write", address |-> w[1], value |-> w[2],
                          before_mmu |-> mmu, after_mmu |-> after,
                          panicked |-> MMU_write_panics(mmu, w[1], w[2])]
              /\ steps' = Append(steps, w)
    /\ writes' = writes + 1
    /\ UNCHANGED <<registers, ime, ime_timer, low_power_mode, ticks>>

\* DIV; 0xC000, 0xD000, 0xDDFF, 0xDFFF; 0xE000, 0xEA60, 0xFDFF; 0xFF80
BusWrites ==
    { <<65284, 0>>, <<65284, 5>>, <<49152, 1>>, <<53248, 3>>, <<56831, 6>>, <<57343, 2>>,
      <<57344, 4>>, <<60000, 7>>, <<65023, 9>>, <<65408, 8>> }

InitBus == Starts(CPU_new(Image(<< >>)))

BusWrite == MmuWriteFrom(BusWrites)

NextBus == BusWrite

SpecBus == InitBus /\ [][NextBus]_vars

IsMmuWrite == last.kind = "mmu_write"

(***************************************************************************)
(* C11: a write of any byte to DIV (0xFF04) resets DIV: a read of 0xFF04   *)
(* right after the write returns 0, whatever was written.                  *)
(***************************************************************************)
C11_DivWriteResets ==
    (IsMmuWrite /\ ~last.panicked /\ last.address = 65284) =>
        MMU_read_memory(last.after_mmu, 65284) = 0

(***************************************************************************)
(* C13: for every address a in work RAM 0xC000-0xDFFF and every byte v, a  *)
(* write of v at a followed by a read of a returns v.                      *)
(***************************************************************************)
C13_WorkRamReadsBack ==
    (IsMmuWrite /\ ~last.panicked /\ InRange(last.address, 49152, 57343)) =>
        MMU_read_memory(last.after_mmu, last.address) = last.value

(***************************************************************************)
(* C14: for every address a in the echo range 0xE000-0xFDFF, a byte        *)
(* written at a is read back at a - 0x2000 and a byte written at           *)
(* a - 0x2000 is read back at a, at the bottom of the range (0xC000 /      *)
(* 0xE000) and at its top (0xDDFF / 0xFDFF).                               *)
(***************************************************************************)
C14_EchoMirrorsWorkRam ==
    (IsMmuWrite /\ ~last.panicked) =>
        /\ InRange(last.address, 57344, 65023) =>
              MMU_read_memory(last.after_mmu, last.address - 8192) = last.value
        /\ InRange(last.address, 49152, 56831) =>
              MMU_read_memory(last.after_mmu, last.address + 8192) = last.value

(***************************************************************************)
(* SpecDiv: MMU::tick called from reset with cycle counts short and long   *)
(* (up to a whole turn of DIV), for a timer disabled or enabled; nothing   *)
(* writes 0xFF04.                                                          *)
(***************************************************************************)
TickLengths == { 0, 1, 255, 256, 600, 65000 }

DivTacBytes == { 0, 5, 7 }

InitDiv ==
    \E tac \in DivTacBytes :
        LET s == CPU_new(Image(<< >>))
        IN  Starts([s EXCEPT !.mmu = MMU_write_memory(s.mmu, 65287, tac)])

\* MMU::tick(elapsed), elapsed any of TickLengths
MmuTickLong ==
    /\ ~panicked
    /\ ticks < MaxMmuTicks
    /\ \E elapsed \in TickLengths :
          \E after \in {MMU_tick(mmu, elapsed)} :
              /\ mmu' = after
              /\ last' = [kind |-> "mmu_tick", before_mmu |-> mmu, elapsed |-> elapsed,
                          after_mmu |-> after,
                          total |-> IF last.kind = "mmu_tick" THEN last.total + last.elapsed
                                    ELSE 0]
    /\ ticks' = ticks + 1
    /\ UNCHANGED <<registers, ime, ime_timer, low_power_mode, panicked, steps, writes>>

NextDiv == MmuTickLong

SpecDiv == InitDiv /\ [][NextDiv]_vars

(***************************************************************************)
(* C12: DIV counts always: from reset, with no write to 0xFF04, after      *)
(* ticks totalling T machine cycles DIV = floor(T / 256) mod 256, whatever *)
(* TAC is and however T is split into ticks.                               *)
(***************************************************************************)
C12_DivCountsCycles ==
    IsMmuTick =>
        MMU_read_memory(mmu, 65284) = ((last.total + last.elapsed) \div 256) % 256

\* DIV has gone once around (T >= 65536) in ticks of different lengths, with
\* the timer enabled, and reads floor(T / 256) mod 256 = 2
C12_Witness ==
    /\ IsMmuTick
    /\ last.total + last.elapsed = 66200
    /\ last.elapsed = 600
    /\ mmu.timer.timer_control = 5
    /\ MMU_read_memory(mmu, 65284) = 2

(***************************************************************************)
(* SpecCartridge: a machine constructed from a ROM image of cartridge type *)
(* 0x00..0x03 or of an unsupported type, then MMU::write_memory called at  *)
(* the bank controller's control regions and in cartridge RAM.  The image  *)
(* holds a distinct non-zero byte at the first and last address of each of *)
(* its banks.                                                              *)
(***************************************************************************)
CartridgeTypes == { 0, 1, 2, 3, 4, 255 }

\* the 16 KiB banks of the image of a cartridge of the given type
ImageBanks(type) == IF type = 0 THEN {0, 1} ELSE {0, 1, 2, 5, 31, 33, 97}

RomByte(a) == ((a \div 16384) * 2 + (IF a % 16384 = 0 THEN 1 ELSE 2)) % 256

Cartridge(type) ==
    [a \in {327} \cup {b * 16384 + k : b \in ImageBanks(type), k \in {0, 16383}}
        |-> IF a = 327 THEN type ELSE RomByte(a)]

\* the machine has been constructed from rom (or the construction has panicked)
\* and nothing has run yet
Constructs(rom) ==
    /\ registers = CPU_new(rom).registers
    /\ mmu = CPU_new(rom).mmu
    /\ ime = CPU_new(rom).ime
    /\ ime_timer = CPU_new(rom).ime_timer
    /\ low_power_mode = CPU_new(rom).low_power_mode
    /\ panicked = CPU_new(rom).panicked
    /\ last = [kind |-> "new", cartridge_type |-> Get(rom, 327),
               panicked |-> CPU_new(rom).panicked]
    /\ steps = << >>
    /\ ticks = 0
    /\ writes = 0

\* RAM enable, ROM bank, upper bits / RAM bank, mode, cartridge RAM
CartridgeWrites ==
    { <<0, 10>>, <<8191, 250>>, <<0, 0>>,
      <<8192, 0>>, <<8192, 1>>, <<8192, 2>>, <<16383, 229>>, <<8192, 32>>, <<16383, 31>>,
      <<16384, 0>>, <<16384, 1>>, <<24575, 3>>,
      <<24576, 0>>, <<32767, 1>>,
      <<40960, 17>>, <<40960, 34>>, <<49151, 51>> }

InitCartridge == \E type \in CartridgeTypes : Constructs(Cartridge(type))

CartridgeWrite == MmuWriteFrom(CartridgeWrites)

NextCartridge == CartridgeWrite

SpecCartridge == InitCartridge /\ [][NextCartridge]_vars

\* the image the machine was constructed from
LoadedImage ==
    Cartridge(IF mmu.memory_bank.kind = "Zero" THEN Get(mmu.memory_bank.rom, 327)
              ELSE Get(mmu.memory_bank.base_rom_bank, 327))

\* the value of the latest write so far to an address in lo..hi, -1 when none
LatestWrite(lo, hi) ==
    LET at == {i \in 1..Len(steps) : InRange(steps[i][1], lo, hi)}
    IN  IF at = {} THEN -1
        ELSE steps[CHOOSE i \in at : \A j \in at : j <= i][2]

(***************************************************************************)
(* C15: with a cartridge of type 0x00, after any sequence of writes to     *)
(* addresses in 0x0000-0x7FFF every read of an address a in 0x0000-0x7FFF  *)
(* still returns byte a of the loaded image: the writes are ignored,       *)
(* change no state, and none of them is a fatal error.                     *)
(***************************************************************************)
C15_NoMbcRomIsReadOnly ==
    (/\ last.kind \in {"new", "mmu_write"}
     /\ mmu.memory_bank.kind = "Zero"
     /\ \A i \in 1..Len(steps) : InRange(steps[i][1], 0, 32767)) =>
        /\ ~panicked
        /\ \A a \in DOMAIN LoadedImage :
              ~MMU_read_panics(mmu, a) /\ MMU_read_memory(mmu, a) = LoadedImage[a]
        /\ IsMmuWrite => last.after_mmu = last.before_mmu

(***************************************************************************)
(* C20: constructing the bank controller from a ROM whose header byte      *)
(* 0x0147 is outside 0x00-0x03 fails fatally at construction, before any   *)
(* step executes; 0x00 constructs the NoMBC variant and 0x01-0x03 the MBC1 *)
(* variant.                                                                *)
(***************************************************************************)
C20_HeaderSelectsController ==
    last.kind = "new" =>
        /\ last.cartridge_type \notin 0..3 => panicked /\ ticks = 0 /\ writes = 0
        /\ last.cartridge_type = 0 => ~panicked /\ mmu.memory_bank.kind = "Zero"
        /\ last.cartridge_type \in 1..3 => ~panicked /\ mmu.memory_bank.kind = "One"

\* construction from an image of type 0xFF has panicked and nothing has run
C20_WitnessFatal == last.kind = "new" /\ last.cartridge_type = 255 /\ panicked

\* the bank controller of the machine is an MBC1 and the step recorded in last
\* is a write to it, at an address in lo..hi, that did not panic
IsMbc1Write(lo, hi) ==
    /\ IsMmuWrite /\ ~last.panicked
    /\ last.after_mmu.memory_bank.kind = "One"
    /\ InRange(last.address, lo, hi)

\* reads at 0x4000 and 0x7FFF come from bank of the loaded image
ReadsRomBank(mb, bank) ==
    \A k \in {0, 16383} :
        /\ ~MemoryBank_read_panics(mb, 16384 + k)
        /\ MemoryBank_read_memory(mb, 16384 + k) = Get(LoadedImage, bank * 16384 + k)

\* the bank the low five bits of v select
LowFive(v) == IF v % 32 = 0 THEN 1 ELSE v % 32

(***************************************************************************)
(* C16: on an MBC1 cartridge with upper bank bits 0, after a write of v to *)
(* an address in 0x2000-0x3FFF a read at 0x4000 + k returns image byte     *)
(* bank * 0x4000 + k, bank = v & 0x1F, except that v & 0x1F = 0 selects    *)
(* bank 1; bits 5..7 of v have no effect.                                  *)
(***************************************************************************)
C16_LowFiveBitsSelectBank ==
    (IsMbc1Write(8192, 16383) /\ LatestWrite(16384, 24575) \in {-1, 0}) =>
        ReadsRomBank(last.after_mmu.memory_bank, LowFive(last.value))

\* 0xE5 was written at 0x3FFF and the byte read at 0x7FFF is the last byte of
\* bank 5 of the image
C16_Witness ==
    /\ IsMbc1Write(8192, 16383)
    /\ LatestWrite(16384, 24575) = -1
    /\ last.address = 16383 /\ last.value = 229
    /\ MemoryBank_read_memory(mmu.memory_bank, 32767) = RomByte(5 * 16384 + 16383)

(***************************************************************************)
(* C17: on an MBC1 cartridge in ROM mode, after a write with low five bits *)
(* low5 to 0x2000-0x3FFF and a write of a 2-bit value u to 0x4000-0x5FFF,  *)
(* reads in 0x4000-0x7FFF come from bank (u << 5) | low5 (low5 = 0         *)
(* replaced by 1), so different u select different banks.                  *)
(***************************************************************************)
C17_UpperBitsSelectBank ==
    (/\ IsMbc1Write(16384, 24575)
     /\ last.value \in 0..3
     /\ LatestWrite(24576, 32767) \in {-1, 0}
     /\ LatestWrite(8192, 16383) # -1
     /\ last.value * 32 + LowFive(LatestWrite(8192, 16383)) \in ImageBanks(1)) =>
        ReadsRomBank(last.after_mmu.memory_bank,
                     last.value * 32 + LowFive(LatestWrite(8192, 16383)))

(***************************************************************************)
(* C18: on an MBC1 cartridge with RAM enabled and the mode register 1, a   *)
(* write of a 2-bit value b to 0x4000-0x5FFF selects RAM bank b of four    *)
(* distinct banks: a byte written at 0xA000 + k under bank b is read back  *)
(* under bank b and does not change what is read at 0xA000 + k under       *)
(* another bank.                                                           *)
(***************************************************************************)
\* the byte read at address a once bank b has been selected in mb
ReadUnderRamBank(mb, b, a) ==
    MemoryBank_read_memory(MemoryBank_write_memory(mb, 16384, b), a)

C18_RamBanksAreDistinct ==
    (/\ IsMbc1Write(40960, 49151)
     /\ LatestWrite(0, 8191) = -1 \/ LatestWrite(0, 8191) % 16 = 10
     /\ Len(steps) >= 3
     /\ InRange(steps[Len(steps) - 2][1], 24576, 32767) /\ steps[Len(steps) - 2][2] = 1
     /\ InRange(steps[Len(steps) - 1][1], 16384, 24575)
     /\ steps[Len(steps) - 1][2] \in 0..3) =>
        LET b == steps[Len(steps) - 1][2]
        IN  /\ ReadUnderRamBank(last.after_mmu.memory_bank, b, last.address) = last.value
            /\ \A other \in (0..3) \ {b} :
                  ReadUnderRamBank(last.after_mmu.memory_bank, other, last.address) =
                      ReadUnderRamBank(last.before_mmu.memory_bank, other, last.address)

(***************************************************************************)
(* C19: on an MBC1 cartridge, when the most recent write to 0x0000-0x1FFF  *)
(* had a low nibble other than 0xA, a write to 0xA000-0xBFFF leaves        *)
(* cartridge RAM unchanged (the old byte is read back once RAM is enabled  *)
(* again); when it had low nibble 0xA, whatever its high nibble, the write *)
(* is stored and read back.                                                *)
(***************************************************************************)
\* the byte stored at address a of the selected RAM bank of mb, as read once
\* RAM is enabled
StoredRamByte(mb, a) == MemoryBank_read_memory(MemoryBank_write_memory(mb, 0, 10), a)

CyclePrograms ==
    { << <<0>> >>,
      << <<65>> >>,
      << <<33, 0, 192>>, <<112>>, <<70>> >>,
      << <<1, 52, 18>>, <<49, 240, 255>> >>,
      << <<6, 7>>, <<62, 9>> >>,
      << <<198, 15>> >>, << <<206, 15>> >>, << <<214, 15>> >>, << <<222, 15>> >>,
      << <<230, 15>> >>, << <<238, 15>> >>, << <<246, 15>> >>, << <<254, 15>> >>,
      << <<197>>, <<209>> >>,
      << <<205, 4, 1>>, <<0>>, <<201>> >>,
      << <<196, 4, 1>>, <<0>>, <<192>>, <<201>> >>,
      << <<204, 4, 1>>, <<0>>, <<200>>, <<201>> >>,
      << <<205, 4, 1>>, <<0>>, <<217>> >>,
      << <<199>> >>, << <<255>> >>,
      << <<24, 1>>, <<0>>, <<0>> >>,
      << <<32, 1>>, <<0>>, <<0>> >>,
      << <<40, 1>>, <<0>>, <<0>> >>,
      << <<39>> >>, << <<55>> >>, << <<251>>, <<243>> >>, << <<224, 128>> >>,
      << <<118>> >> }

\* F with Z and C clear or set
FlagBytes == { 0, 16, 128, 144 }

AccumulatorBytes == { 0, 15, 241 }

\* the power-on state of program with A = a and F = f
Loaded(program, a, f) ==
    LET s == CPU_new(Image(program))
    IN  [s EXCEPT !.registers.a = a, !.registers.f = f]

InitCycles ==
    \E program \in CyclePrograms, a \in AccumulatorBytes, f \in FlagBytes :
        Starts(Loaded(program, a, f))

SpecCycles == InitCycles /\ [][Tick]_vars

\* the machine cycles of the SM83 table for opcode op run with flags f
TableCycles(op, f) ==
    LET z == BitAnd(f, FlagZ) # 0
    IN  CASE op \in {"NOP", "LD_B_C", "HALT", "EI", "DI", "SCF", "DAA"} -> 1
          [] op \in {"LD_B_rHL", "LD_rHL_B", "LD_A_d8", "LD_B_d8"} -> 2
          [] op \in {"LD_BC_d16", "LD_HL_d16", "LD_SP_d16"} -> 3
          [] op \in {"ADD_A_d8", "ADC_A_d8", "SUB_d8", "SBC_A_d8",
                     "AND_d8", "XOR_d8", "OR_d8", "CP_d8"} -> 2
          [] op \in {"PUSH_BC", "PUSH_DE", "PUSH_HL", "PUSH_AF"} -> 4
          [] op \in {"POP_BC", "POP_DE", "POP_HL", "POP_AF"} -> 3
          [] op = "CALL_a16" -> 6
          [] op = "CALL_NZ_a16" -> IF ~z THEN 6 ELSE 3
          [] op = "CALL_Z_a16" -> IF z THEN 6 ELSE 3
          [] op \in {"RET", "RETI"} -> 4
          [] op = "RET_NZ" -> IF ~z THEN 5 ELSE 2
          [] op = "RET_Z" -> IF z THEN 5 ELSE 2
          [] op \in {"RST_00H", "RST_38H"} -> 4
          [] op = "JR_r8" -> 3
          [] op = "JR_NZ_r8" -> IF ~z THEN 3 ELSE 2
          [] op = "JR_Z_r8" -> IF z THEN 3 ELSE 2
          [] op = "LDH_ra8_A" -> 3

\* the step recorded in last executed an instruction
Executed == IsTick /\ ~last.panicked /\ last.op \notin {"none", "OTHER"}

(***************************************************************************)
(* C21: the machine-cycle count of a step that executes an instruction is  *)
(* the value of the SM83 table for its opcode and its taken or not-taken   *)
(* case (NOP 1, register moves 1, moves through (HL) 2, 16-bit immediate   *)
(* loads 3, the eight ALU operations with an immediate operand 2, PUSH 4,  *)
(* POP 3, CALL 6 / 3, RET 4, RETI 4, conditional RET 5 / 2, RST 4,         *)
(* conditional JR 3 / 2).                                                  *)
(***************************************************************************)
C21_CyclesMatchTable ==
    Executed => last.elapsed = TableCycles(last.op, last.mid.registers.f)

(***************************************************************************)
(* SpecSerial: bytes are written through MMU::write_memory to the serial   *)
(* data register 0xFF01 and to its neighbours, on a fresh MMU; mmu.serial  *)
(* is the sequence of bytes the process has written to standard output.    *)
(***************************************************************************)
SerialWrites ==
    { <<65281, 0>>, <<65281, 65>>, <<65281, 127>>, <<65281, 128>>, <<65281, 255>>,
      <<65280, 66>>, <<65282, 67>>, <<49152, 68>> }

InitSerial == Starts(CPU_new(Zeroed))

SerialWrite == MmuWriteFrom(SerialWrites)

SpecSerial == InitSerial /\ [][SerialWrite]_vars

(***************************************************************************)
(* C22: every write to 0xFF01 appends exactly one byte, equal to the       *)
(* written value, to the host serial sink, in the order of the writes; a   *)
(* write to any other address emits nothing.                               *)
(***************************************************************************)
C22_SerialWriteEmitsTheByte ==
    (IsMmuWrite /\ ~last.panicked) =>
        last.after_mmu.serial =
            IF last.address = 65281 THEN Append(last.before_mmu.serial, last.value)
            ELSE last.before_mmu.serial

(***************************************************************************)
(* SpecReti: the CPU runs a routine that ends in RETI (called with the     *)
(* stack in high RAM, or entered at power-on with the stack at 0xFFFE),    *)
(* with IE and IF as the host left them.                                   *)
(***************************************************************************)
RetiPrograms ==
    { << <<49, 240, 255>>, <<205, 8, 1>>, <<0>>, <<0>>, <<217>> >>,
      << <<217>> >> }

InitReti ==
    \E program \in RetiPrograms, ie \in IntBytes, if \in IntBytes :
        LET s == CPU_new(Image(program))
        IN  Starts([s EXCEPT !.mmu = MMU_write_memory(MMU_write_memory(s.mmu, 65535, ie),
                                                       65295, if)])

SpecReti == InitReti /\ [][Tick]_vars

\* the word the bus holds at address a of memory m, low byte first
WordAt(m, a) == MMU_read_memory(m, a) + 256 * MMU_read_memory(m, Wrap16(a + 1))

\* the step before the one recorded in last executed RETI
FollowsReti ==
    /\ IsTick /\ ~last.panicked
    /\ Len(steps) >= 2
    /\ steps[Len(steps) - 1].op = "RETI"
    /\ ~steps[Len(steps) - 1].serviced

(***************************************************************************)
(* C23: RETI sets IME in the step in which it executes, with no delay, and *)
(* pops PC from the stack; an enabled pending interrupt is serviced at the *)
(* start of the very next step, before the instruction at the return       *)
(* address runs.                                                           *)
(***************************************************************************)
C23_RetiEnablesAtOnce ==
    /\ (Executed /\ last.op = "RETI" /\ ~last.serviced) =>
          /\ last.after.ime
          /\ last.after.ime_timer = last.mid.ime_timer
          /\ last.after.registers.pc = WordAt(last.mid_mmu, last.mid.registers.sp)
          /\ last.after.registers.sp = Wrap16(last.mid.registers.sp + 2)
    /\ (FollowsReti /\ Pending(Requested(last.before))) =>
          /\ last.before.ime
          /\ last.serviced
          /\ ~last.mid.ime
          /\ last.mid.registers.pc \in {VectorOf(i) : i \in 0..4}
          /\ last.mid.registers.pc # steps[Len(steps) - 1].after.registers.pc
          /\ last.mid.registers.sp = Wrap16(last.before.registers.sp + 65534)

\* RETI returned to 0x0106 with IE = IF = 0x04 and the next step has serviced
\* the timer interrupt, the return address 0x0106 on the stack
C23_Witness ==
    /\ FollowsReti
    /\ steps[Len(steps) - 1].after.registers.pc = 262
    /\ last.before.interrupt_e = 4 /\ last.before.interrupt_f = 4
    /\ last.serviced
    /\ last.mid.registers.pc = 80
    /\ WordAt(last.mid_mmu, last.mid.registers.sp) = 262

(***************************************************************************)
(* SpecAlu: the CPU executes one 8-bit add, subtract or compare with an    *)
(* immediate operand X, from power-on with the accumulator A and the carry *)
(* flag drawn from the values around every nibble and byte boundary.       *)
(***************************************************************************)
ByteSamples == { 0, 1, 14, 15, 16, 17, 127, 128, 143, 153, 240, 241, 254, 255 }

\* ADD A,d8  ADC A,d8  SUB d8  SBC A,d8  CP d8
AluOpcodes == { 198, 206, 214, 222, 254 }

\* F with C clear or set (Z, N, H set the other way round than C)
CarryBytes == { 224, 16 }

InitAlu ==
    \E op \in AluOpcodes, a \in ByteSamples, x \in ByteSamples, f \in CarryBytes :
        Starts(Loaded(<< <<op, x>> >>, a, f))

SpecAlu == InitAlu /\ [][Tick]_vars

\* the operands of the instruction the step recorded in last executed: the
\* accumulator, the immediate byte that follows the opcode, the C flag
OperandA == last.mid.registers.a

OperandX == MMU_read_memory(last.mid_mmu, Wrap16(last.mid.registers.pc + 1))

CarryIn == Bit(last.mid.registers.f, 4)

\* F with the four flags given as booleans
FlagsByte(z, n, h, c) ==
    (IF z THEN 128 ELSE 0) + (IF n THEN 64 ELSE 0) + (IF h THEN 32 ELSE 0)
        + (IF c THEN 16 ELSE 0)

(***************************************************************************)
(* C24: for all bytes A and X and carry-in c (0 for ADD, the C flag for    *)
(* ADC), after the add A is (A + X + c) mod 256, Z is set iff that is 0,   *)
(* N = 0, H = ((A & 0x0F) + (X & 0x0F) + c) > 0x0F, C = (A + X + c) > 0xFF.*)
(***************************************************************************)
C24_AddFlags ==
    (Executed /\ last.op \in {"ADD_A_d8", "ADC_A_d8"}) =>
        LET c == IF last.op = "ADD_A_d8" THEN 0 ELSE CarryIn
            sum == OperandA + OperandX + c
        IN  /\ last.after.registers.a = sum % 256
            /\ last.after.registers.f =
                  FlagsByte(sum % 256 = 0, FALSE,
                            (OperandA % 16) + (OperandX % 16) + c > 15, sum > 255)

\* ADC A,0x0F with A = 0xF0 and the carry set: the result is 0x00 with Z, H, C
C24_Witness ==
    /\ Executed /\ last.op = "ADC_A_d8"
    /\ OperandA = 240 /\ OperandX = 15 /\ CarryIn = 1
    /\ last.after.registers.a = 0
    /\ last.after.registers.f = 176

(***************************************************************************)
(* C25: for all bytes A and X and borrow b (0 for SUB and CP, the C flag   *)
(* for SBC) the flags are Z = ((A - X - b) mod 256 = 0), N = 1,            *)
(* H = (X & 0x0F) + b > (A & 0x0F), C = X + b > A; the H rule agrees with  *)
(* (A & 0x0F) < (X & 0x0F) + b; CP sets the flags of SUB and leaves A      *)
(* unchanged.                                                              *)
(***************************************************************************)
C25_SubFlags ==
    (Executed /\ last.op \in {"SUB_d8", "SBC_A_d8", "CP_d8"}) =>
        LET b == IF last.op = "SBC_A_d8" THEN CarryIn ELSE 0
            diff == (OperandA + 512 - OperandX - b) % 256
        IN  /\ last.after.registers.f =
                  FlagsByte(diff = 0, TRUE, (OperandX % 16) + b > (OperandA % 16),
                            OperandX + b > OperandA)
            /\ Bit(last.after.registers.f, 5) =
                  (IF (OperandA % 16) < (OperandX % 16) + b THEN 1 ELSE 0)
            /\ last.after.registers.a = (IF last.op = "CP_d8" THEN OperandA ELSE diff)

\* SBC A,0xFF with A = 0x00 and the carry set: X + b = 0x100 > A, result 0x00
C25_Witness ==
    /\ Executed /\ last.op = "SBC_A_d8"
    /\ OperandA = 0 /\ OperandX = 255 /\ CarryIn = 1
    /\ last.after.registers.a = 0
    /\ last.after.registers.f = 240

(***************************************************************************)
(* SpecBcd: the CPU executes an add or a subtract of two BCD-valid bytes   *)
(* and then DAA.                                                           *)
(***************************************************************************)
BcdBytes == { 16 * hi + lo : hi \in 0..9, lo \in 0..9 }

BcdOperands == { 0, 1, 9, 16, 69, 85, 144, 145, 152, 153 }

\* ADD A,d8  ADC A,d8  SUB d8  SBC A,d8
BcdOpcodes == { 198, 206, 214, 222 }

InitBcd ==
    \E op \in BcdOpcodes, a \in BcdBytes, b \in BcdOperands, f \in CarryBytes :
        Starts(Loaded(<< <<op, b>>, <<39>> >>, a, f))

SpecBcd == InitBcd /\ [][Tick]_vars

\* the number a BCD byte encodes, and the BCD byte of a number below 100
FromBcd(v) == (v \div 16) * 10 + (v % 16)

ToBcd(d) == (d \div 10) * 16 + (d % 10)

\* the step recorded in last executed DAA right after the first instruction
DaaFollowsArithmetic ==
    Executed /\ last.op = "DAA" /\ Len(steps) = 2 /\ ~steps[1].panicked

(***************************************************************************)
(* C26: for BCD-valid a and b and carry-in 0 or 1, ADD/ADC then DAA leaves *)
(* A the BCD encoding of (a + b + carry) mod 100 with C set iff the sum is *)
(* at least 100; SUB/SBC then DAA leaves A the BCD encoding of             *)
(* (a - b - carry) mod 100 with C set iff a borrow occurred; in both cases *)
(* Z = (A = 0), H = 0 and DAA leaves N unchanged.                          *)
(***************************************************************************)
C26_DaaGivesBcd ==
    DaaFollowsArithmetic =>
        LET first == steps[1]
            a == FromBcd(first.check.registers.a)
            b == FromBcd(MMU_read_memory(last.mid_mmu, 257))
            carry == IF first.op \in {"ADC_A_d8", "SBC_A_d8"}
                     THEN Bit(first.check.registers.f, 4) ELSE 0
            adds == first.op \in {"ADD_A_d8", "ADC_A_d8"}
            d == IF adds THEN a + b + carry ELSE a + 100 - b - carry
            out == IF adds THEN d >= 100 ELSE d < 100
        IN  /\ last.after.registers.a = ToBcd(d % 100)
            /\ last.after.registers.f =
                  FlagsByte(d % 100 = 0, Bit(last.mid.registers.f, 6) = 1, FALSE, out)
            /\ Bit(last.mid.registers.f, 6) = (IF adds THEN 0 ELSE 1)

\* 0x99 + 0x01 then DAA: 0x00 with Z and C;  the sum 100 wraps
C26_WitnessAdd ==
    /\ DaaFollowsArithmetic
    /\ steps[1].op = "ADD_A_d8"
    /\ steps[1].check.registers.a = 153
    /\ MMU_read_memory(last.mid_mmu, 257) = 1
    /\ last.after.registers.a = 0
    /\ last.after.registers.f = 144

(***************************************************************************)
(* SpecNest: the program EI, NOP, NOP, ... runs with several interrupts    *)
(* enabled and requested and the same handler at each of the five vectors: *)
(* one that only runs NOPs, one that starts with EI, one that is RETI, one *)
(* that starts with DI.                                                    *)
(***************************************************************************)
MaxNestTicks == 6

Handlers == { << >>, <<251>>, <<217>>, <<243>> }

NestBytes == { 0, 4, 5, 31, 36, 224, 255 }

\* the ROM image with EI at 0x0100 and handler at 0x0040, 0x0048, ..., 0x0060
NestImage(handler) ==
    [a \in {256} \cup {VectorOf(i) + k - 1 : i \in 0..4, k \in 1..Len(handler)} |->
        IF a = 256 THEN 251 ELSE handler[((a - 64) % 8) + 1]]

InitNest ==
    \E handler \in Handlers, ie \in NestBytes, if \in NestBytes :
        LET s == CPU_new(NestImage(handler))
        IN  Starts([s EXCEPT !.mmu = MMU_write_memory(MMU_write_memory(s.mmu, 65535, ie),
                                                       65295, if)])

NestTick == TickUpTo(MaxNestTicks)

SpecNest == InitNest /\ [][NestTick]_vars

\* the number of bits 0..7 set in v
RECURSIVE BitsSet(_)
BitsSet(v) == IF v = 0 THEN 0 ELSE (v % 2) + BitsSet(v \div 2)

(***************************************************************************)
(* C27: interrupts do not nest on their own.  After a step services an     *)
(* interrupt IME is false, and no later step services another interrupt,   *)
(* whatever IE and IF contain, until a RETI executes or the delay of an EI *)
(* has elapsed; no single step services more than one interrupt.           *)
(***************************************************************************)
C27_InterruptsDoNotNest ==
    /\ (IsTick /\ ~last.panicked /\ last.serviced) =>
          /\ ~last.mid.ime
          /\ last.op # "RETI" => ~last.after.ime
          /\ BitsSet(last.mid.interrupt_f) = BitsSet(last.check.interrupt_f) - 1
          /\ last.mid.registers.sp = Wrap16(last.check.registers.sp + 65534)
    /\ \A i \in 1..Len(steps) : \A j \in (i + 1)..Len(steps) :
          (steps[i].serviced /\ steps[j].serviced) =>
              \/ \E k \in i..(j - 1) : steps[k].op = "RETI"
              \/ \E k \in (i + 1)..j : steps[k].before.ime_timer = 1

\* the third step serviced an interrupt, the three steps after it ran the NOPs
\* of the handler with another interrupt enabled and requested, none serviced
C27_Witness ==
    /\ Len(steps) = 6
    /\ steps[3].serviced
    /\ \A k \in 4..6 :
          /\ ~steps[k].serviced /\ steps[k].op = "NOP"
          /\ Pending(Requested(steps[k].before))

(***************************************************************************)
(* SpecHalt: the program HALT (or EI, HALT) runs with the timer enabled,   *)
(* TIMA one or two increments from its overflow, the timer interrupt       *)
(* enabled in IE and nothing requested in IF.  SpecHaltFair adds that the  *)
(* driver loop of main never stops calling CPU::tick.                      *)
(***************************************************************************)
MaxHaltTicks == 40

HaltPrograms == { << <<118>> >>, << <<251>>, <<118>> >> }

\* timer enabled, one increment per 16 and per 4 cycles
HaltTacBytes == { 5, 6 }

HaltTimaBytes == { 254, 255 }

HaltTmaBytes == { 0, 240 }

HaltIeBytes == { 4, 5, 255 }

InitHalt ==
    \E program \in HaltPrograms, tac \in HaltTacBytes, tima \in HaltTimaBytes,
       tma \in HaltTmaBytes, ie \in HaltIeBytes :
        LET s == CPU_new(Image(program))
            m1 == MMU_write_memory(s.mmu, 65287, tac)
            m2 == MMU_write_memory(m1, 65285, tima)
            m3 == MMU_write_memory(m2, 65286, tma)
            m4 == MMU_write_memory(m3, 65535, ie)
        IN  Starts([s EXCEPT !.mmu = m4])

HaltTick == TickUpTo(MaxHaltTicks)

SpecHalt == InitHalt /\ [][HaltTick]_vars

\* the loop of main calls CPU::tick again: a step of HaltTick, seen through the
\* step counter alone
LoopCallsTick ==
    /\ ~panicked
    /\ ticks < MaxHaltTicks
    /\ ticks' = ticks + 1

SpecHaltFair == SpecHalt /\ WF_ticks(LoopCallsTick)

\* the CPU is halted with the timer running and the timer interrupt enabled
HaltedOnTimer ==
    /\ ~panicked /\ low_power_mode
    /\ Bit(mmu.timer.timer_control, 2) = 1
    /\ Bit(mmu.interrupt_e, 2) = 1

\* the step recorded in last was a halted step of one cycle in which TIMA
\* overflowed: TIMA holds TMA and bit 2 of IF has been set
OverflowedHalted ==
    /\ IsTick /\ ~last.panicked
    /\ last.mid.low_power_mode /\ low_power_mode
    /\ last.elapsed = 1
    /\ Bit(last.mid.interrupt_f, 2) = 0
    /\ Bit(mmu.interrupt_f, 2) = 1
    /\ mmu.timer.timer_counter = mmu.timer.timer_modulo

\* the step recorded in last began halted with the timer interrupt requested
\* and has cleared the halted flag
WokenByTimer ==
    /\ IsTick /\ ~last.panicked
    /\ last.before.low_power_mode
    /\ Bit(last.before.interrupt_f, 2) = 1
    /\ ~low_power_mode

(***************************************************************************)
(* C28: a halted CPU is woken by the timer.  If the CPU is halted with TAC *)
(* bit 2 and IE bit 2 set, then under repeated steps (each halted step     *)
(* advancing the MMU clock by 1 cycle) TIMA eventually overflows, bit 2 of *)
(* IF is set, and the halted flag is cleared on the following step.        *)
(***************************************************************************)
C28_TimerWakesHaltedCpu ==
    /\ HaltedOnTimer ~> OverflowedHalted
    /\ OverflowedHalted ~> WokenByTimer
    /\ [][OverflowedHalted => WokenByTimer']_vars

\* the CPU halted with TAC = 0x05 and TIMA = 0xFE, TIMA overflowed in the 32nd
\* step and the 33rd has cleared the halted flag
C28_Witness ==
    /\ WokenByTimer
    /\ Len(steps) = 33
    /\ steps[1].op = "HALT"
    /\ \A k \in 2..32 : steps[k].op = "none"
    /\ mmu.timer.timer_control = 5

(***************************************************************************)
(* SpecMbc1: an MBC1 cartridge of 34 banks is loaded and bytes of every    *)
(* shape are written to its four control regions and to its RAM.           *)
(***************************************************************************)
ControlBytes == { 0, 1, 3, 64, 255 }

Mbc1Writes ==
    { <<a, v>> : a \in {0, 8192, 16384, 24576}, v \in ControlBytes } \cup { <<40960, 5>> }

InitMbc1 == Constructs(Cartridge(1))

Mbc1Write == MmuWriteFrom(Mbc1Writes)

SpecMbc1 == InitMbc1 /\ [][Mbc1Write]_vars

(***************************************************************************)
(* C29: on an MBC1 cartridge no control write to 0x0000-0x7FFF aborts,     *)
(* whatever byte is written, and after it every read in 0x4000-0x7FFF and  *)
(* every read or write in 0xA000-0xBFFF stays inside the controller's      *)
(* storage: the selected ROM bank index is below the 125 stored banks and  *)
(* the selected RAM bank index is below 4.                                 *)
(***************************************************************************)
C29_ControlWritesStayInBounds ==
    (/\ IsMmuWrite
     /\ last.before_mmu.memory_bank.kind = "One"
     /\ InRange(last.address, 0, 32767)) =>
        LET mb == last.after_mmu.memory_bank
        IN  /\ ~last.panicked
            /\ mb.selected_rom_grouping + mb.selected_rom_bank < ROM_BANK_COUNT
            /\ mb.selected_ram_bank < 4
            /\ \A a \in {16384, 32767, 40960, 49151} : ~MemoryBank_read_panics(mb, a)
            /\ \A a \in {40960, 49151} : ~MemoryBank_write_panics(mb, a, 0)

\* the step recorded in last reached the is_interrupt_waiting check of
\* handle_interrupt: IME was set or the CPU was halted
ReachedWaitingCheck == IsTick /\ (last.check.ime \/ last.check.low_power_mode)

(***************************************************************************)
(* C30: for all bytes IE and IF interrupt handling never aborts: whenever  *)
(* handle_interrupt passes the is_interrupt_waiting check, the interrupt   *)
(* it unwraps exists; when only bits 5..7 of IE & IF are set no interrupt  *)
(* is serviced and IF is left unchanged.                                   *)
(***************************************************************************)
C30_InterruptHandlingNeverAborts ==
    ReachedWaitingCheck =>
        /\ ~last.panicked
        /\ last.serviced =>
              /\ Pending(Requested(last.check))
              /\ last.mid.registers.pc \in {VectorOf(i) : i \in 0..4}
        /\ ~Pending(Requested(last.check)) =>
              /\ ~last.serviced
              /\ last.mid.interrupt_f = last.check.interrupt_f
              /\ last.mid.registers = last.check.registers
              /\ last.mid.low_power_mode = last.check.low_power_mode
              /\ last.mid.ime = last.check.ime

\* IME is set, IE = IF = 0xE0: the step services nothing and leaves IF = 0xE0
C30_Witness ==
    /\ ReachedWaitingCheck
    /\ last.check.ime
    /\ last.check.interrupt_e = 224 /\ last.check.interrupt_f = 224
    /\ ~last.serviced /\ ~last.panicked
    /\ mmu.interrupt_f = 224

====
